---- MODULE Spec2Model ----
(***************************************************************************)
(* Recording & evidence engine of blackbox-data: Recorder / Run /          *)
(* StepContext (src/blackbox/recorder.py), the hash-chain sealer           *)
(* (src/blackbox/seal.py), the canonical encoder (src/blackbox/util.py)    *)
(* and the evidence store (src/blackbox/store.py).                         *)
(*                                                                         *)
(* Text is modelled as a sequence of code points, a Python dict with       *)
(* caller-chosen keys as a sequence of <<key, value>> pairs in insertion   *)
(* order, a SHA-256 digest as an injective tag around its preimage.        *)
(***************************************************************************)
EXTENDS Integers, Sequences, FiniteSets, TLC

\* ------------------------------------------------------------------ bounds
MaxSteps == 2      \* cap on Run._step_counter
MaxTime == 1       \* cap on the millisecond clock read by utc_now_iso()
MaxStarts == 2     \* cap on start_run calls with the same run_id
MaxFinish == 2     \* cap on finish() calls on one Run object
MaxTamper == 2     \* cap on outside modifications of stored files
MaxAbort == 1      \* cap on finish() calls that raise
TracebackLen == 25000  \* length of the formatted traceback of a step body's exception

\* ------------------------------------------------------- text and JSON keys
Min(a, b) == IF a < b THEN a ELSE b

\* s < t in code-point order (Python str comparison)
LexLess(s, t) ==
    \E i \in 1..(Min(Len(s), Len(t)) + 1) :
        /\ \A j \in 1..(i - 1) : s[j] = t[j]
        /\ \/ (i = Len(s) + 1 /\ i <= Len(t))
           \/ (i <= Len(s) /\ i <= Len(t) /\ s[i] < t[i])

RECURSIVE Digits(_)
\* str(n) for a non-negative int: its decimal digits as code points
Digits(n) == IF n < 10 THEN <<48 + n>> ELSE Digits(n \div 10) \o <<48 + (n % 10)>>

IntKey(n) == [t |-> "int", n |-> n, s |-> <<>>]
StrKey(s) == [t |-> "str", n |-> 0, s |-> s]

\* the JSON object key json.dumps emits for a dict key
KeyText(k) == IF k.t = "int" THEN Digits(k.n) ELSE k.s

\* Python's < on two dict keys of the same type
PyKeyLess(k1, k2) ==
    IF k1.t = "int" THEN k1.n < k2.n ELSE LexLess(k1.s, k2.s)

\* sorted(dct.items()) raises TypeError on keys of different types
SortKeysRaises(d) == \E i, j \in 1..Len(d) : d[i][1].t # d[j][1].t

\* json.dumps(..., sort_keys=True) orders the items by the ORIGINAL keys
SortedItems(d) == SortSeq(d, LAMBDA a, b : PyKeyLess(a[1], b[1]))

\* json.dumps of a dict: items in the given order, keys converted to text
DumpDict(d) == [i \in 1..Len(d) |-> <<KeyText(d[i][1]), d[i][2]>>]

\* json.loads of an object: a dict with str keys in file order
LoadDict(j) == [i \in 1..Len(j) |-> <<StrKey(j[i][1]), j[i][2]>>]

HasMeta(obj) == "metadata" \in DOMAIN obj

\* json.dumps(obj, ensure_ascii=False, indent=2): key order as in memory
JsonDump(obj) == IF HasMeta(obj) THEN [obj EXCEPT !.metadata = DumpDict(@)] ELSE obj

\* json.loads(text)
JsonLoad(text) == IF HasMeta(text) THEN [text EXCEPT !.metadata = LoadDict(@)] ELSE text

CanonicalRaises(obj) == HasMeta(obj) /\ SortKeysRaises(obj.metadata)

canonical_json_bytes(obj) ==
    IF HasMeta(obj) THEN [obj EXCEPT !.metadata = DumpDict(SortedItems(@))] ELSE obj

\* ------------------------------------------------------------------- sealer
Null == [kind |-> "null"]

digest_label(pre) == [kind |-> "sha256", of |-> pre]

payload_digest(obj) == digest_label(canonical_json_bytes(obj))

chain_digest(prev_digest, payload_digest_, typ, ts) ==
    LET prev == IF prev_digest = Null THEN <<>> ELSE <<prev_digest>>
    IN  digest_label([prev |-> prev, pd |-> payload_digest_, typ |-> typ, ts |-> ts])

\* ------------------------------------------------------------ store keys
\* A key below the run prefix {project}/{dataset}/{run_id}: a run-level file
\* (o = 0) or a file of the step directory steps/{o:04d}_{name}.
RunKey(f) == [f |-> f, o |-> 0]
StepKey(o, f) == [f |-> f, o |-> o]

RunFiles == {"run.json", "run_start.json", "run_finish.json", "chain.json"}
StepFiles == {"step.json", "input.bbdata", "input.sample.bbdata",
              "output.bbdata", "output.sample.bbdata", "diff.bbdelta"}
Ordinals == 1..MaxSteps
Keys == {RunKey(f) : f \in RunFiles} \cup {StepKey(o, f) : o \in Ordinals, f \in StepFiles}

\* file contents
Absent == [kind |-> "absent"]
Garbage == [kind |-> "garbage"]
JsonFile(text, indent) == [kind |-> "json", text |-> text, indent |-> indent]
ParquetFile(t, rows) == [kind |-> "parquet", table |-> t, rows |-> rows]

\* Store.put_json: json.dumps(obj, ensure_ascii=False, indent=2) written at key
put_json(st, key, obj) == [st EXCEPT ![key] = JsonFile(JsonDump(obj), 2)]

\* Store.get_json raises when the file is missing or does not parse
GetJsonRaises(st, key) == st[key].kind # "json"
get_json(st, key) == JsonLoad(st[key].text)

\* ------------------------------------------------------------------ tables
\* the number of row hashes a content fingerprint keeps
FpSampleSize == 10

\* The data frames the caller hands to the recorder and to the differ. est_mb
\* is the deep in-memory footprint times size_estimate_multiplier, size_mb the
\* size of the written Parquet file, sample_mb that of its head sample.  A
\* cell of an object (text) column is an index into Strings.
TableDef(t) ==
    CASE t = "TA"   -> [cols |-> <<"id", "x">>, rows |-> <<<<1, 10>>, <<2, 20>>>>,
                        est_mb |-> 1, size_mb |-> 1, sample_mb |-> 0]
      [] t = "TB"   -> [cols |-> <<"id", "x">>, rows |-> <<<<1, 11>>, <<3, 30>>>>,
                        est_mb |-> 1, size_mb |-> 2, sample_mb |-> 0]
      [] t = "TDup" -> [cols |-> <<"id", "x">>, rows |-> <<<<1, 10>>, <<1, 20>>>>,
                        est_mb |-> 2, size_mb |-> 2, sample_mb |-> 0]
      [] t = "TY"   -> [cols |-> <<"y">>, rows |-> <<<<5>>>>,
                        est_mb |-> 0, size_mb |-> 0, sample_mb |-> 0]
      \* TA with x changed in place: same columns, same number of rows
      [] t = "TA2"  -> [cols |-> <<"id", "x">>, rows |-> <<<<1, 12>>, <<2, 20>>>>,
                        est_mb |-> 1, size_mb |-> 1, sample_mb |-> 0]
      \* a column only on this side, one row changed
      [] t = "TC"   -> [cols |-> <<"id", "x", "z">>, rows |-> <<<<1, 10, 7>>, <<2, 21, 7>>>>,
                        est_mb |-> 1, size_mb |-> 1, sample_mb |-> 0]
      \* id is a float64 column: 1.0, 3.0
      [] t = "TF"   -> [cols |-> <<"id", "x">>, rows |-> <<<<1, 10>>, <<3, 30>>>>,
                        est_mb |-> 1, size_mb |-> 1, sample_mb |-> 0]
      \* text key columns: ("a|b", "c") and ("a", "b|c")
      [] t = "TK"   -> [cols |-> <<"k1", "k2", "v">>, rows |-> <<<<4, 3, 1>>, <<1, 5, 2>>>>,
                        est_mb |-> 1, size_mb |-> 1, sample_mb |-> 0]
      \* text key columns: ("a", "b") and ("a", "c")
      [] t = "TL"   -> [cols |-> <<"k1", "k2", "v">>, rows |-> <<<<1, 2, 1>>, <<1, 3, 3>>>>,
                        est_mb |-> 1, size_mb |-> 1, sample_mb |-> 0]
      \* the first row of TA
      [] t = "T1"   -> [cols |-> <<"id", "x">>, rows |-> <<<<1, 10>>>>,
                        est_mb |-> 0, size_mb |-> 0, sample_mb |-> 0]
      \* the keys of TA in descending order, every x different
      [] t = "TRev" -> [cols |-> <<"id", "x">>, rows |-> <<<<2, 22>>, <<1, 13>>>>,
                        est_mb |-> 1, size_mb |-> 1, sample_mb |-> 0]
      \* no rows
      [] t = "TE"   -> [cols |-> <<"id", "x">>, rows |-> <<>>,
                        est_mb |-> 0, size_mb |-> 0, sample_mb |-> 0]
      \* a single column
      [] t = "TI"   -> [cols |-> <<"id">>, rows |-> <<<<1>>, <<2>>, <<4>>>>,
                        est_mb |-> 0, size_mb |-> 0, sample_mb |-> 0]
      \* no column id
      [] t = "TN"   -> [cols |-> <<"n", "x">>, rows |-> <<<<1, 10>>, <<2, 20>>>>,
                        est_mb |-> 1, size_mb |-> 1, sample_mb |-> 0]
      \* seven rows with duplicated ids
      [] t = "TMany" -> [cols |-> <<"id">>,
                         rows |-> <<<<1>>, <<1>>, <<1>>, <<2>>, <<2>>, <<3>>, <<3>>>>,
                         est_mb |-> 0, size_mb |-> 0, sample_mb |-> 0]
      \* the rows of TA in the other order
      [] t = "TSwap" -> [cols |-> <<"id", "x">>, rows |-> <<<<2, 20>>, <<1, 10>>>>,
                         est_mb |-> 1, size_mb |-> 1, sample_mb |-> 0]
      \* one row more than the fingerprint samples: ids 1..11, x = 10 * id ...
      [] t = "TLong" -> [cols |-> <<"id", "x">>,
                         rows |-> [i \in 1..(FpSampleSize + 1) |-> <<i, 10 * i>>],
                         est_mb |-> 1, size_mb |-> 1, sample_mb |-> 0]
      \* ... and the same with x of the last row changed
      [] t = "TLong2" -> [cols |-> <<"id", "x">>,
                          rows |-> [i \in 1..(FpSampleSize + 1) |->
                                       <<i, IF i <= FpSampleSize THEN 10 * i ELSE 10 * i + 1>>],
                          est_mb |-> 1, size_mb |-> 1, sample_mb |-> 0]

NoTable == "none"

\* the text cells: "a", "b", "c", "a|b", "b|c"
Strings == <<<<97>>, <<98>>, <<99>>, <<97, 124, 98>>, <<98, 124, 99>>>>

\* str(df[c].dtype)
DType(t, c) ==
    IF t = "TF" /\ c = "id" THEN "float64"
    ELSE IF t \in {"TK", "TL"} /\ c \in {"k1", "k2"} THEN "object"
    ELSE "int64"

ColSet(t) == {TableDef(t).cols[i] : i \in 1..Len(TableDef(t).cols)}
ColIndex(t, c) == CHOOSE i \in 1..Len(TableDef(t).cols) : TableDef(t).cols[i] = c
Cell(t, r, c) == TableDef(t).rows[r][ColIndex(t, c)]
NRows(t) == Len(TableDef(t).rows)

schema_fingerprint(t) ==
    [cols |-> TableDef(t).cols, dtypes |-> [c \in ColSet(t) |-> DType(t, c)]]

\* the hash of one cell: the value is hashed in its dtype, so 1 and 1.0 differ
CellHash(t, r, c) ==
    CASE DType(t, c) = "int64" -> Cell(t, r, c) + 1
      [] DType(t, c) = "float64" -> Cell(t, r, c) + 34
      [] OTHER -> Cell(t, r, c) + 67

RECURSIVE HashCells(_, _, _)
\* an injective 64-bit row hash over the columns cs (row r of table t)
HashCells(t, r, cs) ==
    IF cs = <<>> THEN 0
    ELSE HashCells(t, r, SubSeq(cs, 1, Len(cs) - 1)) * 101 + CellHash(t, r, cs[Len(cs)])

_rowhash_series(t, cs) == [r \in 1..NRows(t) |-> HashCells(t, r, cs)]

content_fingerprint_rowhash(t, order_sensitive) ==
    IF NRows(t) = 0 THEN [sample |-> <<>>, n |-> 0]
    ELSE LET hashes == _rowhash_series(t, TableDef(t).cols)
             k == Min(FpSampleSize, Len(hashes))
             take == IF order_sensitive
                     THEN SubSeq(hashes, 1, k)
                     ELSE SubSeq(SortSeq(hashes, LAMBDA a, b : a < b), 1, k)
         IN  [sample |-> take, n |-> NRows(t)]

SeqToSet(q) == {q[i] : i \in 1..Len(q)}
SelectCols(q, keep) == SelectSeq(q, LAMBDA c : c \in keep)

\* ------------------------------------------------------------------ differ
Max(a, b) == IF a > b THEN a ELSE b

\* a cell as text, Series.astype("string"): 1 -> "1", 1.0 -> "1.0"
CellText(t, r, c) ==
    CASE DType(t, c) = "int64" -> Digits(Cell(t, r, c))
      [] DType(t, c) = "float64" -> Digits(Cell(t, r, c)) \o <<46, 48>>
      [] OTHER -> Strings[Cell(t, r, c)]

RECURSIVE JoinText(_, _, _)
\* df[pk].astype("string").agg("|".join, axis=1), for one row
JoinText(t, r, pk) ==
    IF Len(pk) = 1 THEN CellText(t, r, pk[1])
    ELSE JoinText(t, r, SubSeq(pk, 1, Len(pk) - 1)) \o <<124>> \o CellText(t, r, pk[Len(pk)])

\* The primary-key value of row r as the non-chunked path compares it: the
\* cell itself for a single key column (<<0, n>>: a number, whatever its
\* dtype; <<1>> \o text: a str), the joined text for several.
PkValue(t, r, pk) ==
    IF Len(pk) = 1 /\ DType(t, pk[1]) # "object"
    THEN <<0, Cell(t, r, pk[1])>>
    ELSE <<1>> \o JoinText(t, r, pk)

\* ... and as the chunked path compares it: always text (_normalize_pk_series)
ChunkKey(t, r, pk) == <<1>> \o JoinText(t, r, pk)

HasDuplicatePk(t, pk) ==
    \E r1, r2 \in 1..NRows(t) : r1 # r2 /\ PkValue(t, r1, pk) = PkValue(t, r2, pk)

DupSampleRows == 5

\* sorted(set(dup.head(5).tolist())): the keys of the first five duplicated rows
DupSample(t, pk) ==
    LET dup == {r \in 1..NRows(t) :
                   \E q \in 1..NRows(t) : q # r /\ PkValue(t, q, pk) = PkValue(t, r, pk)}
    IN  {JoinText(t, r, pk) : r \in {d \in dup : Cardinality({q \in dup : q < d}) < DupSampleRows}}

\* primary_key = <<>> stands for primary_key=None
ResolvePk(a, b, primary_key) ==
    IF primary_key = <<>>
    THEN IF "id" \in ColSet(a) /\ "id" \in ColSet(b) THEN <<"id">> ELSE <<TableDef(a).cols[1]>>
    ELSE primary_key

DiffRaises(kind, sample) ==
    [raises |-> kind, sample |-> sample,
     summary |-> [added |-> 0, removed |-> 0, changed |-> 0],
     summary_only |-> FALSE, ui_hint |-> "None",
     added_keys |-> <<>>, removed_keys |-> <<>>, changed_keys |-> <<>>]

RECURSIVE _build_map_chunked(_, _, _, _, _, _)
\* diff_rowhash._build_map_chunked(df): the loop from row start on (1-based),
\* acc = [raises, mapping, keys_seen] so far
_build_map_chunked(t, pk, hashed, chunk_rows, start, acc) ==
    IF start > NRows(t) THEN acc
    ELSE LET rows == start..Min(start + chunk_rows - 1, NRows(t))
             keys == {ChunkKey(t, r, pk) : r \in rows}
         IN  IF \/ Cardinality(keys) < Cardinality(rows)
                \/ keys \cap acc.keys_seen # {}
             THEN [acc EXCEPT !.raises = TRUE]
             ELSE _build_map_chunked(t, pk, hashed, chunk_rows, start + chunk_rows,
                      [raises |-> FALSE,
                       keys_seen |-> acc.keys_seen \cup keys,
                       mapping |-> [k \in DOMAIN acc.mapping \cup keys |->
                                       IF k \in keys
                                       THEN HashCells(t, CHOOSE r \in rows :
                                                             ChunkKey(t, r, pk) = k, hashed)
                                       ELSE acc.mapping[k]]])

NoMap == [raises |-> FALSE, keys_seen |-> {}, mapping |-> <<>>]

\* the rows of a side as the set operations see them: key k, its text s (str of
\* the key), row hash h
\* (and r, the row's position in the frame)
ItemsOfFrame(t, pk, hashed) ==
    {[k |-> PkValue(t, r, pk), s |-> JoinText(t, r, pk), h |-> HashCells(t, r, hashed),
      r |-> r] : r \in 1..NRows(t)}

ItemsOfMap(m) == {[k |-> key, s |-> Tail(key), h |-> m[key], r |-> 0] : key \in DOMAIN m}

Texts(items) == {i.s : i \in items}

RECURSIVE SortedTexts(_)
\* sorted(texts): ascending in code-point order
SortedTexts(S) ==
    IF S = {} THEN <<>>
    ELSE LET m == CHOOSE x \in S : \A y \in S : x = y \/ LexLess(x, y)
         IN  <<m>> \o SortedTexts(S \ {m})

RECURSIVE InRowOrder(_)
\* [str(x) for x in common_idx[changed_mask].tolist()]: the texts in the order
\* of the index, which is the order of the rows of A
InRowOrder(items) ==
    IF items = {} THEN <<>>
    ELSE LET m == CHOOSE x \in items : \A y \in items : x.r <= y.r
         IN  <<m.s>> \o InRowOrder(items \ {m})

\* lines 527-592: summary-only, the schema override, the payload
DiffPayload(added, removed, common, changed, total_keys, threshold, override, row_order) ==
    LET summary_only ==
            /\ threshold # <<>>
            /\ threshold[1] > 0
            /\ (Cardinality(added) + Cardinality(removed)) * threshold[2]
                   >= threshold[1] * Max(total_keys, 1)
    IN  [raises |-> "none", sample |-> {},
         summary |-> [added |-> Cardinality(added), removed |-> Cardinality(removed),
                      changed |-> IF override THEN Cardinality(common)
                                  ELSE Cardinality(changed)],
         summary_only |-> summary_only,
         ui_hint |-> IF summary_only THEN "summary_only_high_churn" ELSE "None",
         added_keys |-> IF summary_only THEN <<>> ELSE SortedTexts(Texts(added)),
         removed_keys |-> IF summary_only THEN <<>> ELSE SortedTexts(Texts(removed)),
         changed_keys |-> IF override THEN SortedTexts(Texts(common))
                          ELSE IF summary_only THEN <<>>
                          ELSE IF row_order THEN InRowOrder(changed)
                          ELSE SortedTexts(Texts(changed))]

\* The text of a common key: Index.intersection of an int64 and a float64
\* index is a float64 index, so the common key 1 is written "1.0".
Widen(items, widen) ==
    IF widen THEN {[i EXCEPT !.s = @ \o <<46, 48>>] : i \in items} ELSE items

\* lines 467-525: the set operations on the two sides
DiffSets(a_items, b_items, keys_only, threshold, total_keys_hint, override, widen, row_order) ==
    DiffPayload({i \in b_items : \A j \in a_items : j.k # i.k},
                {i \in a_items : \A j \in b_items : j.k # i.k},
                Widen({i \in a_items : \E j \in b_items : j.k = i.k}, widen),
                IF keys_only THEN {}
                ELSE Widen({i \in a_items : \E j \in b_items : j.k = i.k /\ j.h # i.h},
                           widen),
                IF total_keys_hint # 0 THEN total_keys_hint
                ELSE Max(Cardinality(a_items), Cardinality(b_items)),
                threshold, override, row_order)

\* lines 426-525, chunk_rows > 0
DiffChunked(a_map, b_map, keys_only, threshold, total_keys_hint, override) ==
    IF a_map.raises \/ b_map.raises THEN DiffRaises("pk_duplicate", {})
    ELSE DiffSets(ItemsOfMap(a_map.mapping), ItemsOfMap(b_map.mapping),
                  keys_only, threshold, total_keys_hint, override, FALSE, FALSE)

\* lines 309-592, with the primary key resolved and present on both sides
DiffWithPk(a, b, pk, hashed, threshold, total_keys_hint, diff_mode, chunk_rows, override) ==
    IF HasDuplicatePk(a, pk) THEN DiffRaises("pk_duplicate", DupSample(a, pk))
    ELSE IF HasDuplicatePk(b, pk) THEN DiffRaises("pk_duplicate", DupSample(b, pk))
    ELSE IF chunk_rows > 0
    THEN DiffChunked(_build_map_chunked(a, pk, hashed, chunk_rows, 1, NoMap),
                     _build_map_chunked(b, pk, hashed, chunk_rows, 1, NoMap),
                     diff_mode = "keys-only", threshold, total_keys_hint, override)
    ELSE DiffSets(ItemsOfFrame(a, pk, hashed), ItemsOfFrame(b, pk, hashed),
                  diff_mode = "keys-only", threshold, total_keys_hint, override,
                  Len(pk) = 1 /\ DType(a, pk[1]) = "int64" /\ DType(b, pk[1]) = "float64",
                  TRUE)

\* cols_hashed, or no column when every row's hash is taken as 0
ColsHashed(a, b, pk, diff_mode) ==
    IF diff_mode = "keys-only" THEN <<>>
    ELSE SelectSeq(TableDef(a).cols, LAMBDA c : c \in ColSet(b) /\ c \notin SeqToSet(pk))

\* diff_rowhash(a, b, primary_key=..., summary_only_threshold=...,
\* total_keys_hint=..., diff_mode=..., chunk_rows=...,
\* treat_schema_add_remove_as_change=...), pandas path.  threshold is
\* <<num, den>> or <<>> (None); total_keys_hint 0 stands for None.
diff_rowhash(a, b, primary_key, threshold, total_keys_hint, diff_mode, chunk_rows, treat_schema_add_remove_as_change) ==
    IF Len(TableDef(a).cols) = 0 \/ Len(TableDef(b).cols) = 0
    THEN DiffRaises("no_columns", {})
    ELSE IF \E i \in 1..Len(ResolvePk(a, b, primary_key)) :
                \/ ResolvePk(a, b, primary_key)[i] \notin ColSet(a)
                \/ ResolvePk(a, b, primary_key)[i] \notin ColSet(b)
    THEN DiffRaises("pk_missing", {})
    ELSE DiffWithPk(a, b, ResolvePk(a, b, primary_key),
                    ColsHashed(a, b, ResolvePk(a, b, primary_key), diff_mode),
                    threshold, total_keys_hint, diff_mode, chunk_rows,
                    treat_schema_add_remove_as_change /\ ColSet(a) # ColSet(b))

\* ----------------------------------------------------------- configuration
\* DiffConfig, SnapshotConfig, SealConfig and RecorderConfig: the defaults, with
\* max_mb and sample_rows scaled to the tables above
BaseConfig ==
    [diff_mode |-> "rowhash", diff_diff_mode |-> "rows", primary_key |-> <<>>,
     order_sensitive |-> FALSE, adaptive |-> TRUE, skip_if_fingerprint_match |-> TRUE,
     summary_only_threshold |-> <<1, 5>>, chunk_rows |-> 0,
     snapshot_mode |-> "auto", max_mb |-> 1, sample_on_skip |-> TRUE, sample_rows |-> 1,
     seal_mode |-> "chain",
     enforce_explicit_output |-> TRUE, snapshot_async |-> FALSE]

VARIABLES
    cfg,        \* the Recorder's configuration (fixed at construction)
    now,        \* the clock utc_now_iso() reads
    store,      \* the evidence store: key -> file content
    run,        \* the live Run object
    ctxs,       \* the StepContext objects of the live Run, by ordinal
    futures,    \* the snapshot writes submitted to ThreadPoolExecutors
    fin,        \* the frame of a Run.finish() call in progress
    hist,       \* history: calls returned, outside modifications
    frames,     \* the heap of data frames: address (id) -> object and content
    _ROW_HASH_CACHE,    \* hashing._ROW_HASH_CACHE: id -> cache key -> hashes
    _ROW_HASH_REFS,     \* hashing._ROW_HASH_REFS: id -> the object referred to
    call,       \* the last direct call into the hashing module and its result
    file,       \* one file of a LocalStore: its bytes, a writer and a reader
    stream      \* the StreamRun over the live Run and its push() in progress

\* The recorder hands the differ snapshots that stay as they are while a step
\* is open, so its actions leave the state of the hashing module alone.
hashing == <<frames, _ROW_HASH_CACHE, _ROW_HASH_REFS, call>>

vars == <<cfg, now, store, run, ctxs, futures, fin, hist, frames,
          _ROW_HASH_CACHE, _ROW_HASH_REFS, call, file, stream>>

\* --------------------------------------------------------------- history
\* What has happened so far: start_run and finish calls returned on the live
\* Run object's run_id, writes of run_start.json and run_finish.json, outside
\* modifications, finish() calls that raised, and quiet: finish() has returned
\* and nothing was called since.
PayloadKeys ==
    {RunKey("run_start.json"), RunKey("run_finish.json")}
        \cup {StepKey(o, "step.json") : o \in Ordinals}

NoHist == [starts |-> 0, finishes |-> 0, wrote_start |-> 0, wrote_finish |-> 0,
           ntamper |-> 0, tampered |-> [k \in PayloadKeys |-> "no"], quiet |-> FALSE,
           aborts |-> 0]

Called == [hist EXCEPT !.quiet = FALSE]

\* ------------------------------------------------------------ snapshot engine
DefaultSampleRows == 2000

\* Run._df_fingerprints
_df_fingerprints(t) ==
    [schema_fp |-> schema_fingerprint(t),
     content_fp |-> content_fingerprint_rowhash(t, cfg.order_sensitive),
     n_rows |-> NRows(t), n_cols |-> Len(TableDef(t).cols),
     artifact |-> "absent", snapshot_skipped |-> "absent",
     snapshot_size_mb |-> -2, snapshot_est_mb |-> -2,
     sample_artifact |-> "absent", sample_size_mb |-> -2, sample_rows |-> -2,
     sample_pending |-> "absent", sample_error |-> "absent",
     snapshot_pending |-> "absent", snapshot_error |-> "absent"]
\* a size of -2 stands for a key the dict does not have, -1 for None

\* Run._sample_df: the number of head rows kept
_sample_df(t) ==
    LET n == IF cfg.sample_rows <= 0 THEN DefaultSampleRows ELSE cfg.sample_rows
    IN  Min(n, NRows(t))

SampleName(f) == IF f = "input.bbdata" THEN "input.sample.bbdata" ELSE "output.sample.bbdata"

\* a skip that never writes a sample
SampleNever(r, o, f, t) == r

\* The sample-on-skip block of _maybe_write_df_artifact (lines 454-474 and
\* 494-514): r is the result so far, [fp, files, subs, exec, raised].
WriteSample(r, o, f, t) ==
    IF ~cfg.sample_on_skip THEN r
    ELSE IF cfg.snapshot_async
    THEN IF r.exec = "shutdown"
         \* executor.submit raises after shutdown; caught by the except clause
         THEN [r EXCEPT !.fp.sample_artifact = "None", !.fp.sample_error = "set"]
         ELSE [r EXCEPT !.exec = "up",
                        !.fp.sample_artifact = SampleName(f),
                        !.fp.sample_size_mb = -1,
                        !.fp.sample_rows = _sample_df(t),
                        !.fp.sample_pending = "true",
                        !.subs = Append(@, [key |-> StepKey(o, SampleName(f)), table |-> t,
                                            rows |-> _sample_df(t),
                                            size_field |-> "sample_size_mb"])]
    ELSE [r EXCEPT !.fp.sample_artifact = SampleName(f),
                   !.fp.sample_size_mb = TableDef(t).sample_mb,
                   !.fp.sample_rows = _sample_df(t),
                   !.files = Append(@, [key |-> StepKey(o, SampleName(f)),
                                        file |-> ParquetFile(t, _sample_df(t))])]

\* Run._maybe_write_df_artifact(key, df) for key = steps/o/artifacts/f, with the
\* executor in state exec ("none", "up" or "shutdown").  Returns the metadata
\* fp, the files written synchronously, the writes submitted, the executor's
\* new state and whether the call raised.
_maybe_write_df_artifact(o, f, t, exec) ==
    LET r0 == [fp |-> _df_fingerprints(t), files |-> <<>>, subs |-> <<>>,
               exec |-> exec, raised |-> FALSE]
        est_mb == TableDef(t).est_mb
        size_mb == TableDef(t).size_mb
    IN
    IF cfg.snapshot_mode = "none" THEN [r0 EXCEPT !.fp.artifact = "None"]
    ELSE IF cfg.snapshot_mode = "auto" /\ est_mb > cfg.max_mb
    THEN WriteSample([r0 EXCEPT !.fp.artifact = "None",
                                !.fp.snapshot_skipped = "size_estimate"], o, f, t)
    ELSE IF cfg.snapshot_async
    THEN IF exec = "shutdown"
         THEN [r0 EXCEPT !.raised = TRUE]
         ELSE [r0 EXCEPT !.exec = "up",
                         !.subs = <<[key |-> StepKey(o, f), table |-> t, rows |-> NRows(t),
                                     size_field |-> "snapshot_size_mb"]>>,
                         !.fp.artifact = f,
                         !.fp.snapshot_size_mb = -1,
                         !.fp.snapshot_est_mb = est_mb]
    ELSE LET r1 == [r0 EXCEPT !.files = <<[key |-> StepKey(o, f),
                                            file |-> ParquetFile(t, NRows(t))]>>]
         IN  IF cfg.snapshot_mode = "auto" /\ size_mb > cfg.max_mb
             THEN WriteSample([r1 EXCEPT !.fp.artifact = "None",
                                         !.fp.snapshot_skipped = "size"], o, f, t)
             ELSE [r1 EXCEPT !.fp.artifact = f,
                             !.fp.snapshot_size_mb = size_mb,
                             !.fp.snapshot_est_mb = est_mb]

\* --------------------------------------------------------------- the clock
\* utc_now_iso(): the clock has millisecond resolution; successive calls read
\* increasing values until the bound, then the same millisecond again.
Tick(n) == IF n < MaxTime THEN n + 1 ELSE n

\* ------------------------------------------------------------------- chain
NewChain == [algo |-> "sha256", entries |-> <<>>, head |-> Null]

\* an append that forgets the link to the entry before
AppendUnlinked(chain, typ, ts, payload_ref, payload_obj) ==
    [chain EXCEPT !.entries = Append(chain.entries,
                      [index |-> Len(chain.entries), type |-> typ, ts |-> ts,
                       payload_ref |-> payload_ref,
                       payload_digest |-> payload_digest(payload_obj),
                       prev |-> Null,
                       digest |-> chain_digest(Null, payload_digest(payload_obj), typ, ts)]),
                  !.head = chain_digest(Null, payload_digest(payload_obj), typ, ts)]

\* Run._append_chain_entry: the in-memory chain after the append (the caller
\* then writes it at chain.json)
_append_chain_entry(chain, typ, ts, payload_ref, payload_obj) ==
    LET entries == chain.entries
        idx == Len(entries)
        prev == IF entries # <<>> THEN entries[Len(entries)].digest ELSE Null
        pdig == payload_digest(payload_obj)
        dig == chain_digest(prev, pdig, typ, ts)
    IN  [chain EXCEPT !.entries = Append(entries,
                          [index |-> idx, type |-> typ, ts |-> ts,
                           payload_ref |-> payload_ref, payload_digest |-> pdig,
                           prev |-> prev, digest |-> dig]),
                      !.head = dig]

\* ------------------------------------------------------------ Run objects
NoRun == [started |-> FALSE, step_counter |-> 0, chain |-> Null, pending |-> <<>>,
          executor |-> "none", gen |-> 0]

NoCtx == [st |-> "none", input |-> NoTable, output |-> NoTable, started_at |-> -1,
          metadata |-> <<>>, exc |-> FALSE]

Idle == [pc |-> "idle"]

\* Run._init_run of a new Run object with metadata meta
_init_run(meta) ==
    /\ fin.pc = "idle"
    /\ LET created == now
           base == [kind |-> "run", created_at |-> created, finished_at |-> -1,
                    status |-> "running", metadata |-> meta, steps |-> <<>>,
                    seal |-> [mode |-> cfg.seal_mode, head |-> <<>>]]
           st1 == put_json(put_json(store, RunKey("run.json"), base),
                           RunKey("run_start.json"), base)
           fresh == [NoRun EXCEPT !.started = TRUE, !.gen = hist.starts + 1]
       IN  /\ now' = Tick(now)
           /\ hist' = [hist EXCEPT !.starts = @ + 1,
                                   !.wrote_start = @ + 1,
                                   !.finishes = 0,
                                   !.quiet = FALSE]
           /\ IF cfg.seal_mode # "chain"
              THEN /\ store' = st1
                   /\ run' = fresh
                   /\ ctxs' = [o \in Ordinals |-> NoCtx]
              ELSE IF CanonicalRaises(base)
              \* payload_digest raises TypeError: start_run returns no Run
              THEN /\ store' = st1
                   /\ UNCHANGED <<run, ctxs>>
              ELSE LET chain == _append_chain_entry(NewChain, "run_start", created,
                                                    RunKey("run_start.json"), base)
                   IN  /\ store' = put_json(st1, RunKey("chain.json"), chain)
                       /\ run' = [fresh EXCEPT !.chain = chain]
                       /\ ctxs' = [o \in Ordinals |-> NoCtx]
    /\ UNCHANGED <<hashing, file, stream, cfg, futures, fin>>

\* Recorder.start_run(run_id, metadata=meta)
StartRun(meta) ==
    /\ hist.starts = 0
    /\ _init_run(meta)

\* start_run called again with the same explicit run_id: a new Run object over
\* the same run prefix; the caller drops the old one
Restart(meta) ==
    /\ hist.starts \in 1..(MaxStarts - 1)
    /\ _init_run(meta)

\* `with run.step(name, input_df=input, metadata=meta) as st:` -- Run.step
\* allocates the ordinal and builds the StepContext, __enter__ stamps started_at
Step(input, meta) ==
    /\ fin.pc = "idle"
    /\ run.started
    /\ run.step_counter < MaxSteps
    /\ run' = [run EXCEPT !.step_counter = @ + 1]
    /\ ctxs' = [ctxs EXCEPT ![run.step_counter + 1] =
                    [NoCtx EXCEPT !.st = "entered", !.input = input, !.metadata = meta,
                                  !.started_at = now]]
    /\ now' = Tick(now)
    /\ hist' = Called
    /\ UNCHANGED <<hashing, file, stream, cfg, store, futures, fin>>

\* StepContext.capture_output(df)
CaptureOutput(o, t) ==
    /\ fin.pc = "idle"
    /\ ctxs[o].st = "entered"
    /\ ctxs[o].output = NoTable
    /\ ctxs' = [ctxs EXCEPT ![o].output = t]
    /\ hist' = Called
    /\ UNCHANGED <<hashing, file, stream, cfg, now, store, run, futures, fin>>

\* ------------------------------------------------------------- step commit
TracebackCap == 20000

NoWrite(exec) == [fp |-> Null, files |-> <<>>, subs |-> <<>>, exec |-> exec, raised |-> FALSE]

\* the store after the synchronous Parquet writes in files
ApplyFiles(st, files) ==
    [k \in Keys |->
        IF \E i \in 1..Len(files) : files[i].key = k
        THEN files[CHOOSE i \in 1..Len(files) : files[i].key = k].file
        ELSE st[k]]

\* executor.submit for each write of subs
Submit(futs, subs, gen) ==
    futs \o [i \in 1..Len(subs) |->
                [key |-> subs[i].key, table |-> subs[i].table, rows |-> subs[i].rows,
                 size_field |-> subs[i].size_field, gen |-> gen, state |-> "running"]]

\* Run._register_pending_writes for the writes subs, submitted as futures
\* base+1 .. base+Len(subs)
_register_pending_writes(pending, o, field_name, subs, base) ==
    pending \o [i \in 1..Len(subs) |->
                   [step_json_key |-> StepKey(o, "step.json"), field_name |-> field_name,
                    future |-> base + i, size_field |-> subs[i].size_field]]

schema_diff(a, b) ==
    [added_cols |-> SelectSeq(TableDef(b).cols, LAMBDA c : c \notin ColSet(a)),
     removed_cols |-> SelectSeq(TableDef(a).cols, LAMBDA c : c \notin ColSet(b)),
     dtype_changed |-> <<>>]

SkippedDiff(mode, reason) ==
    [mode |-> mode, status |-> "skipped", reason |-> reason, artifact |-> "absent",
     summary |-> [added |-> 0, removed |-> 0, changed |-> 0], summary_only |-> FALSE]

\* The blocks of StepContext.__exit__(exc_type, exc, tb) for the context with
\* ordinal o, last block first.  Each returns the store, the futures and the
\* Run object as the call leaves them, and what the call raised itself
\* ("none": it returned False and a body exception, if any, propagates
\* unchanged).

\* lines 199-205: the chain entry of the step and the write of chain.json
SealStep(st, futs, rn, chain) ==
    [store |-> put_json(st, RunKey("chain.json"), chain), futures |-> futs,
     run |-> [rn EXCEPT !.chain = chain], raised |-> "none"]

\* lines 197-205: put step.json, then seal it
WriteStep(o, st, futs, rn, step_obj, finished_at) ==
    IF cfg.seal_mode # "chain"
    THEN [store |-> put_json(st, StepKey(o, "step.json"), step_obj), futures |-> futs,
          run |-> rn, raised |-> "none"]
    ELSE IF CanonicalRaises(step_obj)
    THEN [store |-> put_json(st, StepKey(o, "step.json"), step_obj), futures |-> futs,
          run |-> rn, raised |-> "sort_keys"]
    ELSE SealStep(put_json(st, StepKey(o, "step.json"), step_obj), futs, rn,
                  _append_chain_entry(run.chain, "step", finished_at,
                                      StepKey(o, "step.json"), step_obj))

\* lines 66-90 and 184-189: the step payload
StepObject(o, exc, finished_at, ctx, fp_in, fp_out, dr) ==
    [kind |-> "step", ordinal |-> o, name |-> "s",
     started_at |-> ctx.started_at, finished_at |-> finished_at,
     status |-> IF exc THEN "error" ELSE "ok", metadata |-> ctx.metadata,
     input |-> fp_in, output |-> fp_out,
     schema_diff |-> IF ctx.input # NoTable /\ ctx.output # NoTable
                     THEN schema_diff(ctx.input, ctx.output) ELSE Null,
     diff |-> dr.diff,
     diff_payload |-> dr.payload,
     error |-> IF exc
               THEN [type |-> "ValueError", traceback |-> Min(TracebackLen, TracebackCap)]
               ELSE Null]

\* lines 148-182: what the differ's result d becomes
DiffResult(wants_diff, runs_differ, d) ==
    [runs_differ |-> runs_differ,
     raises |-> IF runs_differ THEN d.raises ELSE "none",
     payload |-> IF runs_differ
                 THEN [kind |-> "diff", summary |-> d.summary,
                       summary_only |-> d.summary_only, added_keys |-> d.added_keys,
                       removed_keys |-> d.removed_keys, changed_keys |-> d.changed_keys,
                       diff_mode |-> cfg.diff_diff_mode]
                 ELSE Null,
     diff |-> IF ~wants_diff THEN Null
              ELSE IF cfg.diff_diff_mode = "schema" THEN SkippedDiff("schema", "schema_only")
              ELSE IF ~runs_differ THEN SkippedDiff("rowhash", "fingerprint_match")
              ELSE [mode |-> cfg.diff_diff_mode, status |-> "absent", reason |-> "absent",
                    artifact |-> "diff.bbdelta", summary |-> d.summary,
                    summary_only |-> d.summary_only]]

\* a differ that runs whatever the fingerprints say
RunsWheneverRows(ctx, fp_in, fp_out) ==
    /\ cfg.diff_mode # "none"
    /\ ctx.input # NoTable /\ ctx.output # NoTable
    /\ cfg.diff_diff_mode # "schema"

\* lines 104-147: whether the differ runs
RunsDiffer(ctx, fp_in, fp_out) ==
    /\ cfg.diff_mode # "none"
    /\ ctx.input # NoTable /\ ctx.output # NoTable
    /\ cfg.diff_diff_mode # "schema"
    /\ ~(/\ cfg.adaptive /\ cfg.skip_if_fingerprint_match
         /\ fp_in.schema_fp = fp_out.schema_fp
         /\ fp_in.content_fp = fp_out.content_fp)

\* lines 104-182: the diff block
StepDiff(ctx, fp_in, fp_out) ==
    DiffResult(cfg.diff_mode # "none" /\ ctx.input # NoTable /\ ctx.output # NoTable,
               RunsDiffer(ctx, fp_in, fp_out),
               IF RunsDiffer(ctx, fp_in, fp_out)
               THEN diff_rowhash(ctx.input, ctx.output, cfg.primary_key,
                                 IF cfg.adaptive THEN cfg.summary_only_threshold ELSE <<>>,
                                 IF NRows(ctx.input) > NRows(ctx.output)
                                 THEN NRows(ctx.input) ELSE NRows(ctx.output),
                                 cfg.diff_diff_mode, cfg.chunk_rows, FALSE)
               ELSE Null)

\* lines 104-205, after both artifacts are handled
AfterArtifacts(o, exc, finished_at, rin, rout, st_out, fu_out, dr) ==
    IF dr.raises # "none"
    THEN [store |-> st_out, futures |-> fu_out, run |-> [run EXCEPT !.executor = rout.exec],
          raised |-> dr.raises]
    ELSE WriteStep(o,
                   IF dr.runs_differ
                   THEN put_json(st_out, StepKey(o, "diff.bbdelta"), dr.payload)
                   ELSE st_out,
                   fu_out,
                   [run EXCEPT !.executor = rout.exec,
                               !.pending = _register_pending_writes(
                                   _register_pending_writes(run.pending, o, "input",
                                                            rin.subs, Len(futures)),
                                   o, "output", rout.subs, Len(futures) + Len(rin.subs))],
                   StepObject(o, exc, finished_at, ctxs[o], rin.fp, rout.fp, dr),
                   finished_at)

\* lines 96-205, after the output artifact is handled
AfterOutput(o, exc, finished_at, rin, rout) ==
    IF rout.raised
    THEN [store |-> ApplyFiles(store, rin.files),
          futures |-> Submit(futures, rin.subs, run.gen),
          run |-> [run EXCEPT !.executor = rin.exec], raised |-> "submit"]
    ELSE AfterArtifacts(o, exc, finished_at, rin, rout,
                        ApplyFiles(ApplyFiles(store, rin.files), rout.files),
                        Submit(Submit(futures, rin.subs, run.gen), rout.subs, run.gen),
                        StepDiff(ctxs[o], rin.fp, rout.fp))

\* lines 91-205, after the input artifact is handled
AfterInput(o, exc, finished_at, rin) ==
    IF rin.raised
    THEN [store |-> store, futures |-> futures, run |-> run, raised |-> "submit"]
    ELSE AfterOutput(o, exc, finished_at, rin,
                     IF ctxs[o].output # NoTable
                     THEN _maybe_write_df_artifact(o, "output.bbdata", ctxs[o].output, rin.exec)
                     ELSE NoWrite(rin.exec))

\* an exit without the check of lines 61-62
StepExitUnchecked(o, exc, finished_at) ==
    AfterInput(o, exc, finished_at,
               IF ctxs[o].input # NoTable
               THEN _maybe_write_df_artifact(o, "input.bbdata", ctxs[o].input, run.executor)
               ELSE NoWrite(run.executor))

\* StepContext.__exit__(exc_type, exc, tb) at time finished_at
StepExit(o, exc, finished_at) ==
    IF cfg.enforce_explicit_output /\ ~exc /\ ctxs[o].output = NoTable
    THEN [store |-> store, futures |-> futures, run |-> run, raised |-> "output_missing"]
    ELSE AfterInput(o, exc, finished_at,
                    IF ctxs[o].input # NoTable
                    THEN _maybe_write_df_artifact(o, "input.bbdata", ctxs[o].input,
                                                  run.executor)
                    ELSE NoWrite(run.executor))

\* the state after __exit__ returned r
Exited(o, exc, r) ==
    /\ store' = r.store
    /\ futures' = r.futures
    /\ run' = r.run
    /\ ctxs' = [ctxs EXCEPT ![o].st = IF r.raised = "none" THEN "committed" ELSE "raised",
                            ![o].exc = exc]

\* leaving the step scope; exc: the body raised
Exit(o, exc) ==
    /\ fin.pc = "idle"
    /\ ctxs[o].st = "entered"
    /\ Exited(o, exc, StepExit(o, exc, now))
    /\ now' = Tick(now)
    /\ hist' = Called
    /\ UNCHANGED <<hashing, file, stream, cfg, fin>>

\* ------------------------------------------------------- snapshot workers
\* A pool thread finishes Store.put_parquet_df for future i: the file is
\* written and the size returned, or the write raises.
WorkerDone(i, ok) ==
    /\ i \in 1..Len(futures)
    /\ futures[i].state = "running"
    /\ futures' = [futures EXCEPT ![i].state = IF ok THEN "ok" ELSE "failed"]
    /\ store' = IF ok
                THEN [store EXCEPT ![futures[i].key] =
                          ParquetFile(futures[i].table, futures[i].rows)]
                ELSE store
    /\ UNCHANGED <<hashing, file, stream, cfg, now, run, ctxs, fin, hist>>

\* the size future.result() returns
FutureSize(fu) ==
    IF fu.size_field = "sample_size_mb"
    THEN TableDef(fu.table).sample_mb ELSE TableDef(fu.table).size_mb

\* future.result() returns or raises only once the write is over
FutureDone(fu) == fu.state # "running"

\* a shutdown that does not wait
ShutdownNoWait(futs, gen) == TRUE

\* ThreadPoolExecutor.shutdown(wait=True) of the Run's executor returns once
\* every write submitted to it is over
ExecutorIdle(futs, gen) ==
    \A i \in 1..Len(futs) : futs[i].gen = gen => futs[i].state # "running"

\* ------------------------------------------------------------------ finish
\* One iteration of the loop of Run._flush_pending_writes, for item.
FlushItem(st, item, fu) ==
    IF GetJsonRaises(st, item.step_json_key) THEN st
    ELSE LET step_obj == get_json(st, item.step_json_key)
             field == step_obj[item.field_name]
             patched ==
                 IF fu.state = "ok"
                 THEN IF item.size_field = "sample_size_mb"
                      THEN [field EXCEPT !.sample_size_mb = FutureSize(fu),
                                         !.snapshot_pending = "false",
                                         !.sample_pending = "false"]
                      ELSE [field EXCEPT !.snapshot_size_mb = FutureSize(fu),
                                         !.snapshot_pending = "false",
                                         !.sample_pending = "false"]
                 ELSE [field EXCEPT !.snapshot_error = "set"]
         IN  IF field = Null THEN st
             ELSE put_json(st, item.step_json_key,
                           [step_obj EXCEPT ![item.field_name] = patched])

\* Run.finish(status=status), up to the first blocking call
finish(status) ==
    /\ fin.pc = "idle"
    /\ run.started
    /\ fin' = [pc |-> IF cfg.snapshot_async THEN "flush" ELSE "summary",
               finished |-> now, status |-> status, i |-> 1,
               run_summary |-> Null, run_finish |-> Null]
    /\ now' = Tick(now)
    /\ hist' = Called
    /\ UNCHANGED <<hashing, file, stream, cfg, store, run, ctxs, futures>>

\* the first finish() on the Run object
FinishBegin(status) ==
    /\ hist.finishes = 0
    /\ finish(status)

\* finish() called again on a Run object whose finish() already returned
FinishAgain(status) ==
    /\ hist.finishes \in 1..(MaxFinish - 1)
    /\ finish(status)

\* _flush_pending_writes: wait for the next pending write and patch step.json
FinishFlush ==
    /\ fin.pc = "flush"
    /\ fin.i <= Len(run.pending)
    /\ LET item == run.pending[fin.i]
           fu == futures[item.future]
       IN  /\ FutureDone(fu)
           /\ store' = FlushItem(store, item, fu)
    /\ fin' = [fin EXCEPT !.i = @ + 1]
    /\ UNCHANGED <<hashing, file, stream, cfg, now, run, ctxs, futures, hist>>

\* end of the flush loop, then self._snapshot_executor.shutdown(wait=True)
FinishShutdown ==
    /\ fin.pc = "flush"
    /\ fin.i > Len(run.pending)
    /\ run.executor = "up" => ExecutorIdle(futures, run.gen)
    /\ run' = [run EXCEPT !.pending = <<>>,
                          !.executor = IF @ = "up" THEN "shutdown" ELSE @]
    /\ fin' = [fin EXCEPT !.pc = "summary"]
    /\ UNCHANGED <<hashing, file, stream, cfg, now, store, ctxs, futures, hist>>

StepPadWidth == 4

RECURSIVE ZeroPad(_, _)
ZeroPad(txt, width) == IF Len(txt) >= width THEN txt ELSE ZeroPad(<<48>> \o txt, width)

\* the folder name prefix f"{ordinal:04d}"
OrdinalText(o) == ZeroPad(Digits(o), StepPadWidth)

\* store.list(prefix/steps) filtered to step.json, sorted as text; the index
\* run.json.steps built from it (lines 643-653)
ListSteps(st) ==
    LET have == {o \in Ordinals : st[StepKey(o, "step.json")].kind # "absent"}
        RECURSIVE Sorted(_)
        Sorted(S) == IF S = {} THEN <<>>
                     ELSE LET first == CHOOSE o \in S :
                                  \A p \in S \ {o} : LexLess(OrdinalText(o), OrdinalText(p))
                          IN  <<[ordinal |-> first, name |-> "s",
                                 path |-> StepKey(first, "step.json")]>> \o Sorted(S \ {first})
    IN  Sorted(have)

\* lines 600-665: read run.json, build the summary, write run_finish.json
FinishSummary ==
    /\ fin.pc = "summary"
    /\ ~GetJsonRaises(store, RunKey("run.json"))
    /\ LET loaded == get_json(store, RunKey("run.json"))
           run_summary == [loaded EXCEPT !.finished_at = fin.finished,
                                         !.status = fin.status,
                                         !.steps = ListSteps(store)]
           run_finish == [run_summary EXCEPT !.seal.head = <<>>]
       IN  /\ store' = put_json(store, RunKey("run_finish.json"), run_finish)
           /\ fin' = [fin EXCEPT !.pc = IF cfg.seal_mode = "chain" THEN "append" ELSE "put_run",
                                 !.run_summary = run_summary,
                                 !.run_finish = run_finish]
    /\ hist' = [hist EXCEPT !.wrote_finish = @ + 1]
    /\ UNCHANGED <<hashing, file, stream, cfg, now, run, ctxs, futures>>

\* line 668: the run_finish chain entry
FinishAppend ==
    /\ fin.pc = "append"
    /\ LET chain == _append_chain_entry(run.chain, "run_finish", fin.finished,
                                        RunKey("run_finish.json"), fin.run_finish)
       IN  /\ run' = [run EXCEPT !.chain = chain]
           /\ store' = put_json(store, RunKey("chain.json"), chain)
    /\ fin' = [fin EXCEPT !.pc = "put_run"]
    /\ UNCHANGED <<hashing, file, stream, cfg, now, ctxs, futures, hist>>

\* lines 669-674: run.json refreshed with seal.head; finish returns
FinishPutRun ==
    /\ fin.pc = "put_run"
    /\ LET run_summary ==
               IF cfg.seal_mode = "chain"
               THEN [fin.run_summary EXCEPT
                        !.seal.head = <<get_json(store, RunKey("chain.json")).head>>]
               ELSE fin.run_summary
       IN  store' = put_json(store, RunKey("run.json"), run_summary)
    /\ fin' = Idle
    /\ hist' = [hist EXCEPT !.finishes = @ + 1, !.quiet = TRUE]
    /\ UNCHANGED <<hashing, file, stream, cfg, now, run, ctxs, futures>>

\* finish() raises out of a store call (an I/O error in get_json, list or
\* put_json): at line 600-665 before run_finish.json is written, or at line
\* 669-674 after the chain entry is appended.  The call ends where it is.
FinishRaises ==
    /\ fin.pc \in {"summary", "put_run"}
    /\ hist.aborts < MaxAbort
    /\ fin' = Idle
    /\ hist' = [hist EXCEPT !.aborts = @ + 1, !.quiet = FALSE]
    /\ UNCHANGED <<hashing, file, stream, cfg, now, store, run, ctxs, futures>>

\* ------------------------------------------------------------ verification
Verdict(ok, msg, index, ref) == [ok |-> ok, msg |-> msg, index |-> index, ref |-> ref]
NoRef == [f |-> "", o |-> 0]
VerdictOk == Verdict(TRUE, "ok", -1, NoRef)

\* e.get(f): None when the entry has no field f
Get(e, f) == IF f \in DOMAIN e THEN e[f] ELSE Null

\* prev in the loop of verify_chain_structure at position i (1-based): None at
\* the first entry, e.get("digest") of the entry before otherwise
PrevOf(entries, i) == IF i = 1 THEN Null ELSE Get(entries[i - 1], "digest")

\* seal.verify_chain_structure; e["payload_digest"], e["type"] and e["ts"]
\* raise KeyError on an entry without the field
verify_chain_structure(chain) ==
    LET entries == chain.entries
        BadIndex(i) == "index" \notin DOMAIN entries[i] \/ entries[i].index # i - 1
        Lacks(i) == ~({"payload_digest", "type", "ts"} \subseteq DOMAIN entries[i])
        BadDigest(i) == Get(entries[i], "digest") #
                            chain_digest(PrevOf(entries, i), entries[i].payload_digest,
                                         entries[i].type, entries[i].ts)
        BadPrev(i) == Get(entries[i], "prev") # PrevOf(entries, i)
        bad == {i \in 1..Len(entries) :
                    BadIndex(i) \/ Lacks(i) \/ BadDigest(i) \/ BadPrev(i)}
        first == CHOOSE i \in bad : \A j \in bad : i <= j
    IN  IF bad # {}
        THEN IF BadIndex(first) THEN Verdict(FALSE, "Bad index", first - 1, NoRef)
             ELSE IF Lacks(first) THEN Verdict(FALSE, "raised", first - 1, NoRef)
             ELSE IF BadDigest(first) THEN Verdict(FALSE, "Digest mismatch", first - 1, NoRef)
             ELSE Verdict(FALSE, "Prev mismatch", first - 1, NoRef)
        ELSE IF entries # <<>> /\ chain.head # entries[Len(entries)].digest
        THEN Verdict(FALSE, "Head mismatch", -1, NoRef)
        ELSE VerdictOk

\* a chain.json whose "entries" value is not a JSON array
EntriesNotList(chain) == "entries_not_list" \in DOMAIN chain

\* seal.verify_chain_with_payloads(chain, reader, run_prefix)
verify_chain_with_payloads(chain, st) ==
    LET entries == chain.entries
        Missing(i) == ~({"payload_ref", "payload_digest"} \subseteq DOMAIN entries[i])
        Unreadable(i) == GetJsonRaises(st, entries[i].payload_ref)
        Mismatch(i) == payload_digest(get_json(st, entries[i].payload_ref)) #
                           entries[i].payload_digest
        bad == {i \in 1..Len(entries) : Missing(i) \/ Unreadable(i) \/ Mismatch(i)}
        first == CHOOSE i \in bad : \A j \in bad : i <= j
    IN  IF EntriesNotList(chain) THEN Verdict(FALSE, "Invalid chain entries", -1, NoRef)
        ELSE IF bad # {}
        THEN IF Missing(first)
             THEN Verdict(FALSE, "Missing payload_ref/payload_digest", first - 1, NoRef)
             ELSE IF Unreadable(first)
             THEN Verdict(FALSE, "Failed to load payload", first - 1, entries[first].payload_ref)
             ELSE Verdict(FALSE, "Payload digest mismatch", first - 1,
                          entries[first].payload_ref)
        ELSE verify_chain_structure(chain)

\* Run.verify(): the verdict, or "raised" when reading chain.json raises
verify ==
    IF cfg.seal_mode # "chain" THEN Verdict(TRUE, "seal disabled", -1, NoRef)
    ELSE IF GetJsonRaises(store, RunKey("chain.json"))
    THEN Verdict(FALSE, "raised", -1, NoRef)
    ELSE verify_chain_with_payloads(get_json(store, RunKey("chain.json")), store)

\* ------------------------------------------------------ outside modification
\* somebody with access to the store rewrites a chained payload with another
\* JSON value (as the tests do: status := "tampered")
TamperEdit(k) ==
    /\ fin.pc = "idle"
    /\ hist.finishes > 0
    /\ hist.ntamper < MaxTamper
    /\ store[k].kind = "json"
    /\ store[k].text.status # "tampered"
    /\ store' = [store EXCEPT ![k] = JsonFile([store[k].text EXCEPT !.status = "tampered"], 2)]
    /\ hist' = [hist EXCEPT !.ntamper = @ + 1, !.tampered[k] = "edit", !.quiet = FALSE]
    /\ UNCHANGED <<hashing, file, stream, cfg, now, run, ctxs, futures, fin>>

\* ... or deletes it
TamperDelete(k) ==
    /\ fin.pc = "idle"
    /\ hist.finishes > 0
    /\ hist.ntamper < MaxTamper
    /\ store[k].kind = "json"
    /\ store' = [store EXCEPT ![k] = Absent]
    /\ hist' = [hist EXCEPT !.ntamper = @ + 1, !.tampered[k] = "delete", !.quiet = FALSE]
    /\ UNCHANGED <<hashing, file, stream, cfg, now, run, ctxs, futures, fin>>

\* ... or rewrites chain.json itself: a field of entry i (1-based) replaced,
ChainFields == {"index", "type", "ts", "payload_ref", "payload_digest", "prev", "digest"}

\* a digest that belongs to no entry of the chain
Forged == chain_digest(Null, Null, "forged", 0)

TamperChainEntry(i, f) ==
    /\ fin.pc = "idle"
    /\ hist.finishes > 0
    /\ hist.ntamper < MaxTamper
    /\ store[RunKey("chain.json")].kind = "json"
    /\ LET chain == store[RunKey("chain.json")].text
       IN  /\ i \in 1..Len(chain.entries)
           /\ f \in DOMAIN chain.entries[i]
           /\ IF f = "index" THEN TRUE ELSE chain.entries[i][f] # Forged
           /\ store' = [store EXCEPT ![RunKey("chain.json")] =
                  JsonFile([chain EXCEPT !.entries[i][f] =
                                IF f = "index" THEN @ + 1 ELSE Forged], 2)]
    /\ hist' = [hist EXCEPT !.ntamper = @ + 1, !.quiet = FALSE]
    /\ UNCHANGED <<hashing, file, stream, cfg, now, run, ctxs, futures, fin>>

\* ... a field of entry i removed,
TamperChainDrop(i, f) ==
    /\ fin.pc = "idle"
    /\ hist.finishes > 0
    /\ hist.ntamper < MaxTamper
    /\ store[RunKey("chain.json")].kind = "json"
    /\ LET chain == store[RunKey("chain.json")].text
       IN  /\ i \in 1..Len(chain.entries)
           /\ f \in DOMAIN chain.entries[i]
           /\ store' = [store EXCEPT ![RunKey("chain.json")] =
                  JsonFile([chain EXCEPT !.entries[i] =
                                [g \in DOMAIN chain.entries[i] \ {f} |-> chain.entries[i][g]]],
                           2)]
    /\ hist' = [hist EXCEPT !.ntamper = @ + 1, !.quiet = FALSE]
    /\ UNCHANGED <<hashing, file, stream, cfg, now, run, ctxs, futures, fin>>

\* ... or the whole file deleted, overwritten with text that is not JSON, or
\* its "entries" value replaced by something that is not an array
TamperChainFile(how) ==
    /\ fin.pc = "idle"
    /\ hist.finishes > 0
    /\ hist.ntamper < MaxTamper
    /\ store[RunKey("chain.json")].kind = "json"
    /\ ~EntriesNotList(store[RunKey("chain.json")].text)
    /\ store' = [store EXCEPT ![RunKey("chain.json")] =
           CASE how = "delete" -> Absent
             [] how = "garbage" -> Garbage
             [] how = "entries_not_list" ->
                    JsonFile([g \in DOMAIN @.text \cup {"entries_not_list"} |->
                                 IF g = "entries_not_list" THEN TRUE ELSE @.text[g]], 2)]
    /\ hist' = [hist EXCEPT !.ntamper = @ + 1, !.quiet = FALSE]
    /\ UNCHANGED <<hashing, file, stream, cfg, now, run, ctxs, futures, fin>>

\* ------------------------------------------------ direct calls to the differ
NoCall == [op |-> "none"]

\* diff_rowhash(a, b, ...) called and returned (or raised)
DiffCall ==
    /\ call.op = "diff_pending"
    /\ call' = [call EXCEPT !.op = "diff",
                    !.result = diff_rowhash(call.a, call.b, call.primary_key,
                                            call.summary_only_threshold,
                                            call.total_keys_hint, call.diff_mode,
                                            call.chunk_rows,
                                            call.treat_schema_add_remove_as_change)]
    /\ UNCHANGED <<file, stream, cfg, now, store, run, ctxs, futures, fin, hist,
                   frames, _ROW_HASH_CACHE, _ROW_HASH_REFS>>

\* ------------------------------------------------- a file of a LocalStore
\* The recorder above sees the store key by key.  Below, one key of a
\* LocalStore as the operating system sees it: the bytes of the file (in
\* blocks), a put_bytes in progress and the last get_bytes of another
\* thread or process.
DocBlocks == 3      \* blocks of a document
MaxPuts == 3        \* put_bytes calls on the key

\* the document of version v: DocBlocks blocks
Doc(v) == [i \in 1..DocBlocks |-> v]
\* a read: what it returned, the value before and the value after the
\* put_bytes it overlapped with (the value on disk if it overlapped with none)
NoRead == [done |-> FALSE, bytes |-> <<>>, old |-> <<>>, new |-> <<>>, overlapped |-> FALSE]
NoFile == [bytes |-> Doc(1), pc |-> "idle", data |-> <<>>, nput |-> 0,
           read |-> NoRead, prev |-> Doc(1)]

\* put_bytes(key, data): open(path, "wb") truncates the file
PutOpen ==
    /\ file.pc = "idle"
    /\ file.nput < MaxPuts
    /\ file' = [file EXCEPT !.pc = "writing", !.bytes = <<>>, !.prev = file.bytes,
                            !.data = Doc(file.nput + 2), !.nput = @ + 1]
    /\ UNCHANGED <<stream, cfg, now, store, run, ctxs, futures, fin, hist, hashing, call>>

\* f.write(data): the next block reaches the file
PutWrite ==
    /\ file.pc = "writing"
    /\ Len(file.bytes) < Len(file.data)
    /\ file' = [file EXCEPT !.bytes = Append(@, file.data[Len(file.bytes) + 1])]
    /\ UNCHANGED <<stream, cfg, now, store, run, ctxs, futures, fin, hist, hashing, call>>

\* the with block is left: the file is closed, put_bytes returns
PutClose ==
    /\ file.pc = "writing"
    /\ file.bytes = file.data
    /\ file' = [file EXCEPT !.pc = "idle", !.data = <<>>]
    /\ UNCHANGED <<stream, cfg, now, store, run, ctxs, futures, fin, hist, hashing, call>>

\* get_bytes(key) by another thread or process: open(path, "rb"), f.read()
GetBytes ==
    /\ file' = [file EXCEPT !.read =
                    [done |-> TRUE, bytes |-> file.bytes,
                     old |-> IF file.pc = "writing" THEN file.prev ELSE file.bytes,
                     new |-> IF file.pc = "writing" THEN file.data ELSE file.bytes,
                     overlapped |-> file.pc = "writing"]]
    /\ UNCHANGED <<stream, cfg, now, store, run, ctxs, futures, fin, hist, hashing, call>>

\* ------------------------------------------------------------- store keys
\* Identifiers and keys as sequences of code points.
SafeMaxLen == 64

\* str.isalnum(): the ASCII letters and digits, and the letters and digits
\* beyond ASCII (233 is e-acute, 1633 the Arabic-Indic digit one)
IsAlnum(c) == c \in (48..57) \cup (65..90) \cup (97..122) \cup {233, 1633}

\* util.safe_path_component(value, max_len=64)
safe_path_component(value) ==
    SubSeq([i \in 1..Len(value) |->
               IF IsAlnum(value[i]) \/ value[i] \in {45, 95} THEN value[i] ELSE 95],
           1, Min(SafeMaxLen, Len(value)))

\* Run._prefix(): f"{_safe_name(project)}/{_safe_name(dataset)}/{run_id}"
_prefix(project, dataset, run_id) ==
    safe_path_component(project) \o <<47>> \o safe_path_component(dataset)
        \o <<47>> \o run_id

\* Run._step_prefix(ordinal, name), ordinal < 10: ".../steps/000N_{_safe_name(name)}"
_step_prefix(project, dataset, run_id, ordinal, name) ==
    _prefix(project, dataset, run_id) \o <<47, 115, 116, 101, 112, 115, 47, 48, 48, 48>> \o <<48 + ordinal>>
        \o <<95>> \o safe_path_component(name)

\* the keys start_run and the commit of step 1 write (put_json)
KeysWritten(project, dataset, run_id, name) ==
    {_prefix(project, dataset, run_id) \o <<47, 114, 117, 110, 46, 106, 115, 111, 110>>,
     _prefix(project, dataset, run_id) \o <<47, 99, 104, 97, 105, 110, 46, 106, 115, 111, 110>>,
     _step_prefix(project, dataset, run_id, 1, name) \o <<47, 115, 116, 101, 112, 46, 106, 115, 111, 110>>}

RECURSIVE Split(_)
\* key.split("/")
Split(k) ==
    IF \A i \in 1..Len(k) : k[i] # 47 THEN <<k>>
    ELSE LET i == CHOOSE j \in 1..Len(k) : k[j] = 47 /\ \A h \in 1..(j - 1) : k[h] # 47
         IN  <<SubSeq(k, 1, i - 1)>> \o Split(SubSeq(k, i + 1, Len(k)))

RECURSIVE Normalize(_, _)
\* the directory entries the file system walks for the segments segs, after
\* the entries in done: "" and "." stay, ".." goes up
Normalize(done, segs) ==
    IF segs = <<>> THEN done
    ELSE IF Head(segs) \in {<<>>, <<46>>} THEN Normalize(done, Tail(segs))
    ELSE IF Head(segs) = <<46, 46>>
    THEN IF done # <<>> /\ done[Len(done)] # <<46, 46>>
         THEN Normalize(SubSeq(done, 1, Len(done) - 1), Tail(segs))
         ELSE Normalize(Append(done, <<46, 46>>), Tail(segs))
    ELSE Normalize(Append(done, Head(segs)), Tail(segs))

\* LocalStore._path(key) below root: where open() lands
_path(key) == Normalize(<<>>, Split(key))

\* Run._run_json_key, _chain_key, _step_prefix and step.json of one run
PathCall ==
    /\ call.op = "keys_pending"
    /\ call' = [call EXCEPT !.op = "keys",
                    !.keys = KeysWritten(call.project, call.dataset, call.run_id, call.name)]
    /\ UNCHANGED <<file, stream, cfg, now, store, run, ctxs, futures, fin, hist,
                   frames, _ROW_HASH_CACHE, _ROW_HASH_REFS>>

\* ----------------------------------------------------- the row-hash cache
MaxAddrs == 2       \* addresses a data frame can live at
MaxFrames == 3      \* data frames ever allocated

Addrs == 1..MaxAddrs
\* obj numbers the objects ever allocated; dirty: changed in place since then
NoFrame == [obj |-> 0, table |-> NoTable, dirty |-> FALSE]
NoFrames == [next |-> 1, at |-> [d \in Addrs |-> NoFrame]]

\* a function without the argument d: dict.pop(d, None)
Pop(f, d) == [x \in DOMAIN f \ {d} |-> f[x]]
\* a function with f[d] = v: f[d] = v on a dict
Put(f, d, v) == [x \in DOMAIN f \cup {d} |-> IF x = d THEN v ELSE f[x]]

\* a new data frame with the content of table t, at a free address
NewFrame(d, t) ==
    /\ frames.at[d] = NoFrame
    /\ frames.next <= MaxFrames
    /\ frames' = [next |-> frames.next + 1,
                  at |-> [frames.at EXCEPT ![d] =
                             [obj |-> frames.next, table |-> t, dirty |-> FALSE]]]
    /\ UNCHANGED <<file, stream, cfg, now, store, run, ctxs, futures, fin, hist,
                   _ROW_HASH_CACHE, _ROW_HASH_REFS, call>>

\* The frame at d is garbage collected; the weak reference registered for it
\* runs _cleanup, which pops both dicts.
DelFrame(d) ==
    /\ frames.at[d] # NoFrame
    /\ frames' = [frames EXCEPT !.at[d] = NoFrame]
    /\ IF d \in DOMAIN _ROW_HASH_REFS
       THEN IF _ROW_HASH_REFS[d] = frames.at[d].obj
            THEN /\ _ROW_HASH_CACHE' = Pop(_ROW_HASH_CACHE, d)
                 /\ _ROW_HASH_REFS' = Pop(_ROW_HASH_REFS, d)
            ELSE UNCHANGED <<_ROW_HASH_CACHE, _ROW_HASH_REFS>>
       ELSE UNCHANGED <<_ROW_HASH_CACHE, _ROW_HASH_REFS>>
    /\ UNCHANGED <<file, stream, cfg, now, store, run, ctxs, futures, fin, hist, call>>

\* the caller changes the frame at d in place: afterwards it holds table t
SetCells(d, t) ==
    /\ frames.at[d] # NoFrame
    /\ frames.at[d].table # t
    /\ frames' = [frames EXCEPT !.at[d].table = t, !.at[d].dirty = TRUE]
    /\ UNCHANGED <<file, stream, cfg, now, store, run, ctxs, futures, fin, hist,
                   _ROW_HASH_CACHE, _ROW_HASH_REFS, call>>

\* _get_rowhash_cache(df) for the frame at d: the two dicts afterwards
_get_rowhash_cache(d) ==
    IF IF d \in DOMAIN _ROW_HASH_REFS THEN _ROW_HASH_REFS[d] # frames.at[d].obj ELSE TRUE
    THEN [cache |-> Put(_ROW_HASH_CACHE, d, <<>>),
          refs |-> Put(_ROW_HASH_REFS, d, frames.at[d].obj)]
    ELSE [cache |-> _ROW_HASH_CACHE, refs |-> _ROW_HASH_REFS]

\* len(cached) == len(df) for an entry of the frame's cache
CacheHit(dicts, d, cols) ==
    IF cols \in DOMAIN dicts.cache[d]
    THEN Len(dicts.cache[d][cols]) = NRows(frames.at[d].table)
    ELSE FALSE

\* _rowhash_series(df, cols, cache_rowhash=True) on the frame at d; the cache
\* key is the column list (group_size 0)
CachedRowHash(d, cols) ==
    /\ frames.at[d] # NoFrame
    /\ cols # <<>>
    /\ SeqToSet(cols) \subseteq ColSet(frames.at[d].table)
    /\ IF CacheHit(_get_rowhash_cache(d), d, cols)
       THEN /\ call' = [op |-> "rowhash", df |-> frames.at[d], cols |-> cols, hit |-> TRUE,
                        result |-> _get_rowhash_cache(d).cache[d][cols]]
            /\ _ROW_HASH_CACHE' = _get_rowhash_cache(d).cache
       ELSE /\ call' = [op |-> "rowhash", df |-> frames.at[d], cols |-> cols, hit |-> FALSE,
                        result |-> _rowhash_series(frames.at[d].table, cols)]
            /\ _ROW_HASH_CACHE' =
                   [_get_rowhash_cache(d).cache EXCEPT ![d] =
                        Put(@, cols, _rowhash_series(frames.at[d].table, cols))]
    /\ _ROW_HASH_REFS' = _get_rowhash_cache(d).refs
    /\ UNCHANGED <<file, stream, cfg, now, store, run, ctxs, futures, fin, hist, frames>>

\* ---------------------------------------------------------------- StreamRun
\* JSON values of the metadata push() builds
JInt(n) == [t |-> "int", n |-> n]
JTrue == [t |-> "bool", n |-> 1]
JDict == [t |-> "dict", n |-> 0]

KeyStream == StrKey(<<115, 116, 114, 101, 97, 109>>)
KeyBatchIndex == StrKey(<<98, 97, 116, 99, 104, 95, 105, 110, 100, 101, 120>>)
KeyWindow == StrKey(<<119, 105, 110, 100, 111, 119>>)
KeySource == StrKey(<<115, 114, 99>>)

\* d[k] = v on a dict: a key already there keeps its place
DictSet(d, k, v) ==
    IF \E i \in 1..Len(d) : d[i][1] = k
    THEN [i \in 1..Len(d) |-> IF d[i][1] = k THEN <<k, v>> ELSE d[i]]
    ELSE Append(d, <<k, v>>)

RECURSIVE DictUpdate(_, _)
\* d.update(e)
DictUpdate(d, e) ==
    IF e = <<>> THEN d
    ELSE DictUpdate(DictSet(d, e[1][1], e[1][2]), Tail(e))

\* StreamRun.__init__
NoStream == [_batch_index |-> 0, _last_df |-> NoTable, pc |-> "idle", df |-> NoTable,
             metadata |-> <<>>, o |-> 0, log |-> <<>>]

\* lines 708-713 of push(): the step metadata; metadata and window are the
\* caller's arguments, <<>> for None (and for an empty dict)
PushMeta(batch_index, metadata, window) ==
    LET meta == <<<<KeyStream, JTrue>>, <<KeyBatchIndex, JInt(batch_index)>>>>
        m1 == IF metadata # <<>> THEN DictUpdate(meta, metadata) ELSE meta
    IN  IF window # <<>> THEN DictSet(m1, KeyWindow, JDict) ELSE m1

\* StreamRun.push(step, df, metadata=..., window=...) up to the end of the
\* with body: _batch_index += 1, Run.step(input_df=_last_df, metadata=meta),
\* __enter__, st.capture_output(df)
PushEnter(df, metadata, window) ==
    /\ stream.pc = "idle"
    /\ fin.pc = "idle"
    /\ run.started
    /\ run.step_counter < MaxSteps
    /\ stream' = [stream EXCEPT !._batch_index = @ + 1, !.pc = "in_step", !.df = df,
                                !.metadata = metadata, !.o = run.step_counter + 1]
    /\ run' = [run EXCEPT !.step_counter = @ + 1]
    /\ ctxs' = [ctxs EXCEPT ![run.step_counter + 1] =
                    [NoCtx EXCEPT !.st = "entered", !.input = stream._last_df,
                                  !.output = df, !.started_at = now,
                                  !.metadata = PushMeta(stream._batch_index + 1,
                                                        metadata, window)]]
    /\ now' = Tick(now)
    /\ hist' = Called
    /\ UNCHANGED <<hashing, file, cfg, store, futures, fin>>

\* the rest of push(): __exit__ of the step scope, and `self._last_df = df`
\* when it did not raise
PushLeave(r) ==
    /\ Exited(stream.o, FALSE, r)
    /\ stream' = [stream EXCEPT !.pc = "idle",
                                !._last_df = IF r.raised = "none" THEN stream.df ELSE @,
                                !.log = Append(@, [df |-> stream.df, o |-> stream.o,
                                                   metadata |-> stream.metadata,
                                                   ok |-> r.raised = "none"])]

PushExit ==
    /\ stream.pc = "in_step"
    /\ PushLeave(StepExit(stream.o, FALSE, now))
    /\ now' = Tick(now)
    /\ hist' = Called
    /\ UNCHANGED <<hashing, file, cfg, fin>>

\* -------------------------------------------------------------- the system

InitRecorder(configs) ==
    /\ cfg \in configs
    /\ now = 0
    /\ store = [k \in Keys |-> Absent]
    /\ run = NoRun
    /\ ctxs = [o \in Ordinals |-> NoCtx]
    /\ futures = <<>>
    /\ fin = Idle
    /\ hist = NoHist

\* the hashing module after import, no frame allocated
InitCache ==
    /\ frames = NoFrames
    /\ _ROW_HASH_CACHE = <<>>
    /\ _ROW_HASH_REFS = <<>>

InitWith(configs) ==
    /\ InitRecorder(configs)
    /\ InitCache
    /\ call = NoCall
    /\ file = NoFile
    /\ stream = NoStream

\* the recorder's operations with the caller's inputs drawn from the given sets
Recorder(metas, inputs, outputs, statuses) ==
    \/ \E m \in metas : StartRun(m)
    \/ \E t \in inputs, m \in metas : Step(t, m)
    \/ \E o \in Ordinals, t \in outputs : CaptureOutput(o, t)
    \/ \E o \in Ordinals, exc \in BOOLEAN : Exit(o, exc)
    \/ \E s \in statuses : FinishBegin(s)
    \/ FinishSummary
    \/ FinishAppend
    \/ FinishPutRun

\* the snapshot pool and the parts of finish() that wait for it
Workers(outcomes) ==
    \/ \E i \in 1..Len(futures), ok \in outcomes : WorkerDone(i, ok)
    \/ FinishFlush
    \/ FinishShutdown

EmptyMeta == <<>>

\* metadata={9: "a", 10: "b"}: int keys, which json.dumps accepts
IntMeta == <<<<IntKey(9), "a">>, <<IntKey(10), "b">>>>

Configs ==
    {[BaseConfig EXCEPT !.snapshot_mode = m, !.snapshot_async = a,
                        !.enforce_explicit_output = e] :
        m \in {"none", "auto", "always"}, a \in BOOLEAN, e \in BOOLEAN}

SyncConfigs == {c \in Configs : ~c.snapshot_async}
AsyncConfigs == {c \in Configs : c.snapshot_async /\ c.snapshot_mode # "none"}

\* One run under every configuration, step scopes in any order.
Init == InitWith(Configs)

Next ==
    \/ Recorder({EmptyMeta}, {NoTable, "TA"}, {"TB", "TY"}, {"ok"})
    \/ \E s \in {"ok"} : FinishAgain(s)
    \/ Workers({TRUE})

Spec == Init /\ [][Next]_vars

\* The same run_id started and finished again and again, synchronous snapshots.
InitSeq == InitWith({c \in SyncConfigs : c.snapshot_mode = "auto"})

NoOpenScope == \A o \in Ordinals : ctxs[o].st # "entered"

\* step scopes one after the other
NextSeq ==
    \/ StartRun(EmptyMeta)
    \/ (NoOpenScope /\ Step(NoTable, EmptyMeta))
    \/ \E o \in Ordinals : CaptureOutput(o, "TB")
    \/ \E o \in Ordinals, exc \in BOOLEAN : Exit(o, exc)
    \/ (NoOpenScope /\ FinishBegin("ok"))
    \/ FinishSummary
    \/ FinishAppend
    \/ FinishPutRun
    \/ (NoOpenScope /\ Restart(EmptyMeta))
    \/ (NoOpenScope /\ FinishAgain("ok"))

SpecSeq == InitSeq /\ [][NextSeq]_vars

\* Asynchronous snapshots whose writes succeed or fail.
InitAsync == InitWith(AsyncConfigs)

NextAsync ==
    \/ Recorder({EmptyMeta}, {NoTable, "TA"}, {"TB", "TY"}, {"ok"})
    \/ \E s \in {"ok"} : FinishAgain(s)
    \/ Workers(BOOLEAN)

SpecAsync == InitAsync /\ [][NextAsync]_vars

\* Caller metadata with keys that are not text.
InitMeta == InitWith({[BaseConfig EXCEPT !.enforce_explicit_output = FALSE]})

NextMeta == Recorder({EmptyMeta, IntMeta}, {NoTable}, {"TB"}, {"ok"})

SpecMeta == InitMeta /\ [][NextMeta]_vars

\* A finished run whose stored payloads are then modified from outside.
InitTamper ==
    InitWith({[BaseConfig EXCEPT !.snapshot_mode = "always", !.snapshot_async = a] :
                  a \in BOOLEAN})

NextTamper ==
    \/ (hist.ntamper = 0 /\ Recorder({EmptyMeta}, {"TA"}, {"TB"}, {"ok"}))
    \/ (hist.ntamper = 0 /\ Workers({TRUE}))
    \/ \E k \in PayloadKeys : TamperEdit(k)
    \/ \E k \in PayloadKeys : TamperDelete(k)

SpecTamper == InitTamper /\ [][NextTamper]_vars

\* Asynchronous snapshots under the auto policy, with tables above and below
\* max_mb: full snapshots and head samples, writes that succeed or fail.
InitFlush ==
    InitWith({[BaseConfig EXCEPT !.snapshot_async = TRUE, !.max_mb = m,
                                 !.enforce_explicit_output = FALSE] : m \in {0, 1}})

NextFlush ==
    \/ Recorder({EmptyMeta}, {"TA"}, {"TB"}, {"ok"})
    \/ Workers(BOOLEAN)

SpecFlush == InitFlush /\ [][NextFlush]_vars

\* A finished run whose payloads and chain.json are then modified from outside.
InitForge == InitWith({[BaseConfig EXCEPT !.enforce_explicit_output = FALSE]})

NextForge ==
    \/ (hist.ntamper = 0 /\ Recorder({EmptyMeta}, {NoTable}, {"TB"}, {"ok"}))
    \/ \E k \in PayloadKeys : TamperEdit(k)
    \/ \E k \in PayloadKeys : TamperDelete(k)
    \/ \E i \in 1..(MaxSteps + 2), f \in {"index", "prev", "digest"} : TamperChainEntry(i, f)
    \/ \E i \in 1..(MaxSteps + 2), f \in ChainFields : TamperChainDrop(i, f)
    \/ \E how \in {"delete", "garbage", "entries_not_list"} : TamperChainFile(how)

SpecForge == InitForge /\ [][NextForge]_vars

\* A run whose finish() may raise part-way, snapshots written in the caller's
\* thread or by the pool.
InitAbort ==
    InitWith({[BaseConfig EXCEPT !.snapshot_mode = "always", !.snapshot_async = a,
                                 !.enforce_explicit_output = FALSE] : a \in BOOLEAN})

NextAbort ==
    \/ Recorder({EmptyMeta}, {"TA"}, {"TB"}, {"ok"})
    \/ Workers({TRUE})
    \/ FinishRaises

SpecAbort == InitAbort /\ [][NextAbort]_vars

\* The differ called directly, its arguments drawn from small sets.
DiffTables ==
    {"T1", "TA", "TA2", "TB", "TC", "TDup", "TE", "TF", "TI", "TK", "TL", "TMany", "TN",
     "TRev", "TY"}
PrimaryKeys == {<<>>, <<"id">>, <<"k1", "k2">>}
Thresholds == {<<>>, <<0, 1>>, <<1, 2>>, <<1, 1>>}
Hints == {0, 1, 2, 5}
ChunkRows == {0, 1, 2}

InitDiff ==
    /\ InitRecorder({BaseConfig})
    /\ InitCache
    /\ file = NoFile
    /\ stream = NoStream
    /\ call \in [op : {"diff_pending"}, a : DiffTables, b : DiffTables,
                 primary_key : PrimaryKeys, summary_only_threshold : Thresholds,
                 total_keys_hint : Hints, diff_mode : {"rows", "keys-only"},
                 chunk_rows : ChunkRows,
                 treat_schema_add_remove_as_change : BOOLEAN,
                 result : {Null}]

NextDiff == DiffCall

SpecDiff == InitDiff /\ [][NextDiff]_vars

\* The keys of one run, the identifiers drawn from small sets: "a", "a b",
\* "..", "/", e-acute, 65 letters; run ids "r", "q/r", "../r", "r/../q", "..".
LongName == [i \in 1..(SafeMaxLen + 1) |-> 97]
Identifiers == {<<97>>, <<97, 32, 98>>, <<46, 46>>, <<47>>, <<233>>, LongName}
RunIds == {<<114>>, <<113, 47, 114>>, <<46, 46, 47, 114>>, <<114, 47, 46, 46, 47, 113>>,
           <<46, 46>>}

InitPath ==
    /\ InitRecorder({BaseConfig})
    /\ InitCache
    /\ file = NoFile
    /\ stream = NoStream
    /\ call \in [op : {"keys_pending"}, project : Identifiers, dataset : Identifiers,
                 run_id : RunIds, name : Identifiers, keys : {{}}]

NextPath == PathCall

SpecPath == InitPath /\ [][NextPath]_vars

\* One key of a LocalStore written again and again while it is read.
NextFile ==
    \/ PutOpen
    \/ PutWrite
    \/ PutClose
    \/ GetBytes

SpecFile == InitWith({BaseConfig}) /\ [][NextFile]_vars

\* Runs under every snapshot policy: mode, max_mb, sample_on_skip, sample_rows
\* (0: the default of 2000 rows), synchronous and asynchronous writes.
SnapshotConfigs ==
    {[BaseConfig EXCEPT !.snapshot_mode = m, !.snapshot_async = a, !.max_mb = mb,
                        !.sample_on_skip = sk, !.sample_rows = n,
                        !.enforce_explicit_output = FALSE] :
        m \in {"none", "auto", "always"}, a \in BOOLEAN, mb \in {0, 1},
        sk \in BOOLEAN, n \in {0, 1}}

InitSnap == InitWith(SnapshotConfigs)

NextSnap ==
    \/ Recorder({EmptyMeta}, {NoTable, "TA"}, {"TB"}, {"ok"})
    \/ Workers({TRUE})

SpecSnap == InitSnap /\ [][NextSnap]_vars

\* Frames allocated, changed in place, hashed with the cache on, and freed.
CacheTables == {"TA", "TA2", "TI"}

NextCache ==
    \/ \E d \in Addrs, t \in CacheTables : NewFrame(d, t)
    \/ \E d \in Addrs : DelFrame(d)
    \/ \E d \in Addrs, t \in CacheTables : SetCells(d, t)
    \/ \E d \in Addrs, cols \in {<<"id">>, <<"id", "x">>} : CachedRowHash(d, cols)

SpecCache == InitWith({BaseConfig}) /\ [][NextCache]_vars

\* One run under every setting of the differ: diff.mode, diff.diff_mode,
\* adaptive and skip_if_fingerprint_match, step scopes with and without input
\* and output.
StepDiffConfigs ==
    {[BaseConfig EXCEPT !.diff_mode = m, !.diff_diff_mode = d, !.adaptive = ad,
                        !.skip_if_fingerprint_match = sk,
                        !.enforce_explicit_output = FALSE] :
        m \in {"none", "rowhash"}, d \in {"rows", "schema"}, ad \in BOOLEAN,
        sk \in BOOLEAN}

InitStepDiff == InitWith(StepDiffConfigs)

NextStepDiff == Recorder({EmptyMeta}, {NoTable, "TA", "TB"}, {"TA", "TB"}, {"ok"})

SpecStepDiff == InitStepDiff /\ [][NextStepDiff]_vars

\* A stream of micro-batches pushed one after the other, with and without
\* caller metadata and window, then finished.
StreamConfigs ==
    {[BaseConfig EXCEPT !.primary_key = <<"id">>, !.snapshot_mode = m] :
        m \in {"none", "auto"}}

CallerMeta == {<<>>, <<<<KeySource, JInt(7)>>>>, <<<<KeyBatchIndex, JInt(7)>>>>}

InitStream == InitWith(StreamConfigs)

NextStream ==
    \/ (stream.pc = "idle" /\ StartRun(EmptyMeta))
    \/ \E df \in {"TA", "TB", "TDup"}, m \in CallerMeta, w \in {<<>>, <<1>>} : PushEnter(df, m, w)
    \/ PushExit
    \/ (stream.pc = "idle" /\ FinishBegin("ok"))
    \/ FinishSummary
    \/ FinishAppend
    \/ FinishPutRun

SpecStream == InitStream /\ [][NextStream]_vars

\* Steps whose input and output may have equal fingerprints: the same rows in
\* another order, and tables longer than the fingerprint sample.
MatchConfigs ==
    {[BaseConfig EXCEPT !.order_sensitive = os, !.primary_key = pk,
                        !.snapshot_mode = "none"] :
        os \in BOOLEAN, pk \in {<<>>, <<"id">>}}

InitMatch == InitWith(MatchConfigs)

NextMatch == Recorder({EmptyMeta}, {"TA", "TLong"}, {"TA", "TSwap", "TLong2"}, {"ok"})

SpecMatch == InitMatch /\ [][NextMatch]_vars

\* ------------------------------------------------------------------ claims
HasChain == ~GetJsonRaises(store, RunKey("chain.json"))
StoredChain == get_json(store, RunKey("chain.json"))
StoredEntries == IF HasChain THEN StoredChain.entries ELSE <<>>
LastType(entries) == IF entries = <<>> THEN "none" ELSE entries[Len(entries)].type
HasStep(o) == ~GetJsonRaises(store, StepKey(o, "step.json"))
StoredStep(o) == get_json(store, StepKey(o, "step.json"))

\* C1: verify() called right after finish() has returned answers (True, "ok"),
\* whatever the snapshot mode and whether snapshots are written asynchronously.
AllCommitted == \A o \in Ordinals : ctxs[o].st \in {"none", "committed"}

TouchedIndexes ==
    {i \in 1..Len(StoredEntries) : hist.tampered[StoredEntries[i].payload_ref] # "no"}

NamesTouched(v, first) ==
    /\ ~v.ok
    /\ v.index = first - 1
    /\ v.ref = StoredEntries[first].payload_ref
    /\ v.msg = IF hist.tampered[StoredEntries[first].payload_ref] = "delete"
               THEN "Failed to load payload" ELSE "Payload digest mismatch"

EntryLinked(entries, i) ==
    /\ entries[i].index = i - 1
    /\ entries[i].prev = IF i = 1 THEN Null ELSE entries[i - 1].digest
    /\ entries[i].digest = chain_digest(entries[i].prev, entries[i].payload_digest,
                                        entries[i].type, entries[i].ts)

ChainLinked(c) ==
    /\ c.entries # <<>>
    /\ \A i \in 1..Len(c.entries) : EntryLinked(c.entries, i)
    /\ c.head = c.entries[Len(c.entries)].digest

C3_ChainStructure == HasChain => ChainLinked(StoredChain)

C3_ChainOfRestartedRun ==
    /\ hist.starts = 2
    /\ hist.quiet
    /\ Len(StoredEntries) >= 3

\* C4: in every reachable state the payload_digest of each chain entry equals
\* the digest recomputed from the payload as read back from the store.
EntryMatchesStore(e) ==
    ~GetJsonRaises(store, e.payload_ref) =>
        e.payload_digest = payload_digest(get_json(store, e.payload_ref))

C4_DigestOfReadBack ==
    \A i \in 1..Len(StoredEntries) : EntryMatchesStore(StoredEntries[i])

\* C5: the ordinals of the steps with recorded evidence are 1..N without a
\* gap, also when some step's exit raised or some step never exited.
RecordedOrdinals == {o \in Ordinals : HasStep(o)}

C5_OrdinalsContiguous ==
    hist.quiet => RecordedOrdinals = 1..Cardinality(RecordedOrdinals)

\* C6: the step entries of the chain are in strictly increasing ordinal order,
\* one per committed step, whatever the order in which the scopes exit.
StepRefs == SelectSeq(StoredEntries, LAMBDA e : e.type = "step")

C6_ChainInOrdinalOrder ==
    \A i \in 1..Len(StepRefs) : \A j \in 1..Len(StepRefs) :
        i < j => StepRefs[i].payload_ref.o < StepRefs[j].payload_ref.o

\* C7: when the body of a step scope raises, the exit writes step.json with
\* status "error" and an error record whose traceback has at most 20000
\* characters, appends the step's chain entry, and lets the body's exception
\* propagate.
ErrorRecorded(o) ==
    /\ ctxs[o].st = "committed"
    /\ HasStep(o)
    /\ StoredStep(o).status = "error"
    /\ StoredStep(o).error # Null
    /\ StoredStep(o).error.traceback <= 20000
    /\ \E i \in 1..Len(StoredEntries) :
           StoredEntries[i].payload_ref = StepKey(o, "step.json")

C7_ErrorStepRecorded ==
    \A o \in Ordinals :
        (ctxs[o].exc /\ ctxs[o].st \in {"committed", "raised"}) => ErrorRecorded(o)

\* C8: run_start.json and run_finish.json are each written exactly once, also
\* when finish() is called repeatedly or start_run is called again with the
\* same run_id.
C8_WrittenOnce == hist.wrote_start <= 1 /\ hist.wrote_finish <= 1

\* C9: the entry types of the chain are run_start, then step entries, then at
\* most one run_finish, which is last: nothing is appended after finish().
TypesInOrder(entries) ==
    \A i \in 1..Len(entries) :
        \/ (i = 1 /\ entries[i].type = "run_start")
        \/ (i > 1 /\ entries[i].type = "step")
        \/ (i > 1 /\ i = Len(entries) /\ entries[i].type = "run_finish")

C9_ChainEndsAtFinish == TypesInOrder(StoredEntries)

\* C10: with asynchronous snapshots the run_finish chain entry is appended
\* only when every submitted snapshot write is over and every step.json is
\* patched; run_finish.json is written before its chain entry, and run.json
\* with the seal head is the last write of finish().
\* a size of -1 (None) is what a submitted write leaves until it is patched
FieldPatched(f) ==
    \/ f = Null
    \/ f.snapshot_error = "set"
    \/ (f.snapshot_size_mb # -1 /\ f.sample_size_mb # -1)

WritesSettled ==
    /\ \A i \in 1..Len(futures) : futures[i].state # "running"
    /\ \A o \in Ordinals :
           HasStep(o) => FieldPatched(StoredStep(o).input) /\ FieldPatched(StoredStep(o).output)

FinishFileWritten(e) ==
    /\ e.payload_ref = RunKey("run_finish.json")
    /\ ~GetJsonRaises(store, e.payload_ref)
    /\ payload_digest(get_json(store, e.payload_ref)) = e.payload_digest

FinishEntryAppended ==
    /\ Len(StoredEntries') = Len(StoredEntries) + 1
    /\ LastType(StoredEntries') = "run_finish"

RunJsonRewritten ==
    /\ store'[RunKey("run.json")] # store[RunKey("run.json")]
    /\ store[RunKey("run.json")].kind = "json"

RunJsonLast ==
    /\ fin'.pc = "idle"
    /\ LastType(StoredEntries) = "run_finish"
    /\ FinishFileWritten(StoredEntries[Len(StoredEntries)])
    /\ UNCHANGED <<store[RunKey("chain.json")], store[RunKey("run_finish.json")]>>
    /\ get_json(store', RunKey("run.json")).seal.head = <<StoredChain.head>>

C10_FinishOrder ==
    [][/\ FinishEntryAppended =>
              WritesSettled /\ FinishFileWritten(StoredEntries'[Len(StoredEntries')])
       /\ RunJsonRewritten => RunJsonLast]_vars

C10_FinishedWithPatches ==
    /\ hist.quiet
    /\ LastType(StoredEntries) = "run_finish"
    /\ \E i \in 1..Len(futures) : futures[i].state = "ok"
    /\ \E i \in 1..Len(futures) : futures[i].state = "failed"
    /\ \E o \in Ordinals : HasStep(o) /\ StoredStep(o).input # Null
                             /\ StoredStep(o).input.snapshot_pending = "false"
    /\ \E o \in Ordinals : HasStep(o) /\ StoredStep(o).input # Null
                             /\ StoredStep(o).input.snapshot_error = "set"

\* C11: with snapshot_async, when finish() has returned every snapshot write
\* submitted during the run is resolved in its step.json: the size field holds
\* the realized size after a successful write, snapshot_error is set after a
\* failed one, and neither snapshot_pending nor sample_pending is left true.
FieldOf(fu) ==
    IF fu.key.f \in {"input.bbdata", "input.sample.bbdata"} THEN "input" ELSE "output"

FieldResolved(f, fu) ==
    /\ f # Null
    /\ fu.state = "ok" => f[fu.size_field] = FutureSize(fu)
    /\ fu.state = "failed" => f.snapshot_error = "set"
    /\ f.snapshot_pending # "true"
    /\ f.sample_pending # "true"

WriteResolved(fu) ==
    /\ HasStep(fu.key.o)
    /\ FieldResolved(StoredStep(fu.key.o)[FieldOf(fu)], fu)

C12_VerifyReturns == run.started => verify.msg # "raised"

\* C13: when the chain has a payload defect (digest mismatch or missing
\* payload) at one entry and a structural defect (bad index, digest mismatch
\* or prev mismatch) at another, verification reports the defect at the
\* smallest defective index.
ChainComplete ==
    /\ HasChain
    /\ ~EntriesNotList(StoredChain)
    /\ \A i \in 1..Len(StoredEntries) : ChainFields \subseteq DOMAIN StoredEntries[i]

PayloadDefects ==
    {i \in 1..Len(StoredEntries) :
        \/ GetJsonRaises(store, StoredEntries[i].payload_ref)
        \/ payload_digest(get_json(store, StoredEntries[i].payload_ref)) #
               StoredEntries[i].payload_digest}

StructDefects == {i \in 1..Len(StoredEntries) : ~EntryLinked(StoredEntries, i)}

Smallest(S) == CHOOSE i \in S : \A j \in S : i <= j

C13_EarliestDefectFirst ==
    (run.started /\ ChainComplete /\ PayloadDefects # {} /\ StructDefects # {}) =>
        (~verify.ok /\ verify.index = Smallest(PayloadDefects \cup StructDefects) - 1)

\* C14: at every point after start_run and before finish() has completed --
\* after any number of committed steps, with snapshot writes still pending,
\* and after a finish() that raised -- verification of the stored chain
\* answers (True, "ok") and run.json.status is "running".
RunJsonStatus == get_json(store, RunKey("run.json")).status

Leaves(o) == ctxs[o].st = "entered" /\ ctxs'[o].st # "entered"

LeavesWithoutOutput(o) ==
    /\ cfg.enforce_explicit_output
    /\ hist.finishes = 0
    /\ Leaves(o)
    /\ ctxs[o].output = NoTable

OutputMissingRaised(o) ==
    /\ ctxs'[o].st = "raised"
    /\ store' = store
    /\ run'.chain = run.chain
    /\ futures' = futures

ErrorStepWritten(o) ==
    /\ ctxs'[o].st = "committed"
    /\ ~GetJsonRaises(store', StepKey(o, "step.json"))
    /\ get_json(store', StepKey(o, "step.json")).status = "error"
    /\ \E i \in 1..Len(StoredEntries') :
           StoredEntries'[i].payload_ref = StepKey(o, "step.json")

CallPk == ResolvePk(call.a, call.b, call.primary_key)
PkPresent ==
    /\ TableDef(call.a).cols # <<>>
    /\ TableDef(call.b).cols # <<>>
    /\ SeqToSet(CallPk) \subseteq ColSet(call.a) \cap ColSet(call.b)
RowsOf(t) == 1..NRows(t)
KeysOf(t) == {PkValue(t, r, CallPk) : r \in RowsOf(t)}
UniquePk(t) == Cardinality(KeysOf(t)) = NRows(t)
SharedCols ==
    SelectSeq(TableDef(call.a).cols,
              LAMBDA c : c \in ColSet(call.b) /\ c \notin SeqToSet(CallPk))
RowsAdded == {r \in RowsOf(call.b) : PkValue(call.b, r, CallPk) \notin KeysOf(call.a)}
RowsRemoved == {r \in RowsOf(call.a) : PkValue(call.a, r, CallPk) \notin KeysOf(call.b)}
RowsCommon == {r \in RowsOf(call.a) : PkValue(call.a, r, CallPk) \in KeysOf(call.b)}
RowsChanged ==
    {r \in RowsCommon :
        \E q \in RowsOf(call.b) :
            /\ PkValue(call.b, q, CallPk) = PkValue(call.a, r, CallPk)
            /\ HashCells(call.b, q, SharedCols) # HashCells(call.a, r, SharedCols)}
\* the same rows on the side of B
RowsChangedB ==
    {q \in RowsOf(call.b) :
        \E r \in RowsChanged : PkValue(call.a, r, CallPk) = PkValue(call.b, q, CallPk)}
KeyTexts(t, rows) == {JoinText(t, r, CallPk) : r \in rows}
DiffReturned == call.op = "diff" /\ PkPresent /\ UniquePk(call.a) /\ UniquePk(call.b)
PolicyOff == ~call.treat_schema_add_remove_as_change

SetsAsSpecified ==
    /\ call.result.raises = "none"
    /\ call.result.summary.added = Cardinality(RowsAdded)
    /\ call.result.summary.removed = Cardinality(RowsRemoved)
    /\ call.result.summary.changed =
           (IF call.diff_mode = "keys-only" THEN 0 ELSE Cardinality(RowsChanged))
    /\ (call.diff_mode = "keys-only" \/ SharedCols = <<>>) => call.result.summary.changed = 0
    /\ ~call.result.summary_only =>
           /\ SeqToSet(call.result.added_keys) = KeyTexts(call.b, RowsAdded)
           /\ SeqToSet(call.result.removed_keys) = KeyTexts(call.a, RowsRemoved)
           /\ SeqToSet(call.result.changed_keys) \in
                  (IF call.diff_mode = "keys-only" THEN {{}}
                   ELSE {KeyTexts(call.a, RowsChanged), KeyTexts(call.b, RowsChangedB)})
           /\ SeqToSet(call.result.added_keys) \cap SeqToSet(call.result.removed_keys) = {}
           /\ SeqToSet(call.result.added_keys) \cap SeqToSet(call.result.changed_keys) = {}
           /\ SeqToSet(call.result.removed_keys) \cap SeqToSet(call.result.changed_keys) = {}
           /\ call.result.summary.added = Cardinality(SeqToSet(call.result.added_keys))
           /\ call.result.summary.removed = Cardinality(SeqToSet(call.result.removed_keys))
           /\ call.result.summary.changed = Cardinality(SeqToSet(call.result.changed_keys))

\* C16: for tables with unique primary keys (the schema policy off), the
\* differ returns added = keys(B) \ keys(A), removed = keys(A) \ keys(B),
\* changed = the common keys whose hashes over the shared non-key columns
\* differ; the sets are disjoint, the counts are their sizes, and keys-only or
\* no shared non-key column gives no changed key.
C16_KeySets == (DiffReturned /\ PolicyOff) => SetsAsSpecified

\* the same with chunk_rows = 0 only
C16_KeySetsUnchunked ==
    (DiffReturned /\ PolicyOff /\ call.chunk_rows = 0) => SetsAsSpecified

\* added, removed and changed keys all reported by one unchunked call
C16_AllThreeKinds ==
    /\ DiffReturned /\ PolicyOff /\ call.chunk_rows = 0
    /\ ~call.result.summary_only
    /\ SeqToSet(call.result.added_keys) # {}
    /\ SeqToSet(call.result.removed_keys) # {}
    /\ SeqToSet(call.result.changed_keys) # {}

\* the primary key as the documentation resolves it
ExpectedPk ==
    IF call.primary_key # <<>> THEN call.primary_key
    ELSE IF "id" \in ColSet(call.a) /\ "id" \in ColSet(call.b) THEN <<"id">>
    ELSE <<TableDef(call.a).cols[1]>>
PkAbsent ==
    \E i \in 1..Len(ExpectedPk) :
        ExpectedPk[i] \notin ColSet(call.a) \/ ExpectedPk[i] \notin ColSet(call.b)
\* two rows of t with the same value in every primary-key column
PkOccursTwice(t) ==
    \E r1, r2 \in RowsOf(t) :
        /\ r1 # r2
        /\ \A i \in 1..Len(ExpectedPk) :
               Cell(t, r1, ExpectedPk[i]) = Cell(t, r2, ExpectedPk[i])
PkErrorsAsSpecified ==
    /\ call.result = diff_rowhash(call.a, call.b, ExpectedPk, call.summary_only_threshold,
                                  call.total_keys_hint, call.diff_mode, call.chunk_rows,
                                  call.treat_schema_add_remove_as_change)
    /\ call.result.raises = "pk_missing" <=> PkAbsent
    /\ ~PkAbsent => (call.result.raises = "pk_duplicate"
                        <=> (PkOccursTwice(call.a) \/ PkOccursTwice(call.b)))
    /\ Cardinality(call.result.sample) <= 5
    /\ call.result.raises # "none" =>
           /\ SeqToSet(call.result.added_keys) = {} /\ SeqToSet(call.result.removed_keys) = {}
           /\ SeqToSet(call.result.changed_keys) = {}
           /\ call.result.summary = [added |-> 0, removed |-> 0, changed |-> 0]

\* C17: the differ uses the given primary key, else id when both tables have
\* it, else the first column of A; it raises the missing-key error iff a key
\* column is absent from A or B, the duplicate-key error (at most 5 sample
\* values) iff a key value occurs twice within A or within B, and returns no
\* payload with either error.
C17_PkErrors == call.op = "diff" => PkErrorsAsSpecified

\* the same for primary keys of one column
C17_PkErrorsSingleColumn == (call.op = "diff" /\ Len(ExpectedPk) = 1) => PkErrorsAsSpecified

\* a duplicate-key error on a table with more than five duplicated rows
C17_DuplicateSampled ==
    /\ call.op = "diff" /\ Len(ExpectedPk) = 1
    /\ call.a = "TMany"
    /\ call.result.raises = "pk_duplicate"
    /\ call.result.sample # {}

\* max(total_keys_hint, |A|, |B|, 1)
TotalKeys ==
    Max(Max(call.total_keys_hint, NRows(call.a)), Max(NRows(call.b), 1))
\* a threshold of 0 disables summary-only
ThresholdSet ==
    call.summary_only_threshold # <<>> /\ call.summary_only_threshold[1] > 0
RatioReached ==
    (Cardinality(RowsAdded) + Cardinality(RowsRemoved)) * call.summary_only_threshold[2]
        >= call.summary_only_threshold[1] * TotalKeys
EngagedAsSpecified ==
    call.result.summary_only <=> (IF ThresholdSet THEN RatioReached ELSE FALSE)
KeysWithheld ==
    call.result.summary_only =>
        /\ SeqToSet(call.result.added_keys) = {}
        /\ SeqToSet(call.result.removed_keys) = {}
        /\ SeqToSet(call.result.changed_keys) = {}
        /\ call.result.ui_hint = "summary_only_high_churn"
        /\ call.result.summary.added = Cardinality(RowsAdded)
        /\ call.result.summary.removed = Cardinality(RowsRemoved)

\* C18: summary_only is true exactly when a threshold is set and
\* (|added| + |removed|) / max(total_keys_hint, |A|, |B|, 1) >= threshold,
\* for every hint; then the three key lists are empty under every combination
\* of chunk_rows, diff_mode and the schema policy, ui_hint is
\* "summary_only_high_churn" and the counts are the true counts.
C18_SummaryOnly == DiffReturned => (EngagedAsSpecified /\ KeysWithheld)

\* the same on calls without a hint, unchunked, the schema policy off
C18_SummaryOnlyPlain ==
    (DiffReturned /\ PolicyOff /\ call.total_keys_hint = 0 /\ call.chunk_rows = 0)
        => (EngagedAsSpecified /\ KeysWithheld)

\* the hint alone: unchunked, the schema policy off
C18_EngagedWithHint ==
    (DiffReturned /\ PolicyOff /\ call.chunk_rows = 0) => EngagedAsSpecified

\* the schema policy alone: unchunked calls without a hint
C18_WithheldUnderPolicy ==
    (DiffReturned /\ call.total_keys_hint = 0 /\ call.chunk_rows = 0) => KeysWithheld

\* summary-only engaged at equality: ratio 1/2, threshold 1/2
C18_EngagedAtEquality ==
    /\ DiffReturned /\ PolicyOff /\ call.total_keys_hint = 0 /\ call.chunk_rows = 0
    /\ call.summary_only_threshold = <<1, 2>>
    /\ (Cardinality(RowsAdded) + Cardinality(RowsRemoved)) * 2 = TotalKeys
    /\ call.result.summary_only

\* the same call with chunk_rows = 0
Unchunked ==
    diff_rowhash(call.a, call.b, call.primary_key, call.summary_only_threshold,
                 call.total_keys_hint, call.diff_mode, 0,
                 call.treat_schema_add_remove_as_change)
SameAsUnchunked ==
    /\ call.result.summary = Unchunked.summary
    /\ SeqToSet(call.result.added_keys) = SeqToSet(Unchunked.added_keys)
    /\ SeqToSet(call.result.removed_keys) = SeqToSet(Unchunked.removed_keys)
    /\ SeqToSet(call.result.changed_keys) = SeqToSet(Unchunked.changed_keys)
    /\ call.result.raises = "pk_duplicate" <=> Unchunked.raises = "pk_duplicate"
\* the key columns have the same dtype on both sides
SameKeyDTypes ==
    PkPresent => \A i \in 1..Len(CallPk) : DType(call.a, CallPk[i]) = DType(call.b, CallPk[i])

\* C19: with chunk_rows > 0 the differ returns the same summary and the same
\* added, removed and changed key sets as with chunk_rows = 0 on the same
\* inputs, and raises the duplicate-key error in the same cases.
C19_ChunkedMatches == (call.op = "diff" /\ call.chunk_rows > 0) => SameAsUnchunked

\* the same when the key columns have one dtype on both sides
C19_ChunkedMatchesSameDType ==
    (call.op = "diff" /\ call.chunk_rows > 0 /\ SameKeyDTypes) => SameAsUnchunked

\* a chunked diff over several chunks that reports keys of all three kinds
C19_SeveralChunks ==
    /\ call.op = "diff" /\ call.chunk_rows = 1 /\ SameKeyDTypes
    /\ NRows(call.a) > 1 /\ NRows(call.b) > 1
    /\ SeqToSet(call.result.added_keys) # {}
    /\ SeqToSet(call.result.removed_keys) # {}
    /\ SeqToSet(call.result.changed_keys) # {}

\* ------------------------------------------------------- the row-hash cache
\* C20: with cache_rowhash on, every cache hit returns the hash series a fresh
\* computation on the frame's current content returns, whatever requests,
\* in-place changes, frees and allocations at a freed address came before.
C20_CacheSound ==
    (call.op = "rowhash" /\ call.hit)
        => call.result = _rowhash_series(call.df.table, call.cols)

\* the same for frames never changed in place
C20_CacheSoundUnchanged ==
    (call.op = "rowhash" /\ call.hit /\ ~call.df.dirty)
        => call.result = _rowhash_series(call.df.table, call.cols)

\* a hit on a frame never changed in place
C20_HitOnUnchanged == call.op = "rowhash" /\ call.hit /\ ~call.df.dirty


\* ---------------------------------------------------------------- store keys
\* the documented filter: keep A-Z a-z 0-9 _ -, replace the rest, cut at 64
Safe(value) ==
    SubSeq([i \in 1..Len(value) |->
               IF value[i] \in (48..57) \cup (65..90) \cup (97..122) \cup {45, 95}
               THEN value[i] ELSE 95],
           1, Min(64, Len(value)))
\* where a key lands: in the directory run_id of the data set's directory
BelowRunPrefix(k) ==
    /\ Len(_path(k)) > 3
    /\ _path(k)[1] = Safe(call.project)
    /\ _path(k)[2] = Safe(call.dataset)
    /\ _path(k)[3] = call.run_id
KeysBelowRunPrefix == \A k \in call.keys : BelowRunPrefix(k)

\* C21: every key written for a run lies below
\* {safe(project)}/{safe(dataset)}/{run_id}, with safe the documented filter;
\* no project, dataset, step name or run_id makes a write land outside this
\* directory or in the directory of another run.
C21_KeysBelowRunPrefix == call.op = "keys" => KeysBelowRunPrefix

\* the same for ASCII identifiers and a run_id of one path segment
C21_KeysBelowPlainRunId ==
    (/\ call.op = "keys"
     /\ call.run_id = <<114>>
     /\ \A v \in {call.project, call.dataset, call.name} : 233 \notin SeqToSet(v))
        => KeysBelowRunPrefix

\* identifiers with separators and dots, cut at 64, land below the prefix
C21_SanitizedAndCut ==
    /\ call.op = "keys"
    /\ call.run_id = <<114>>
    /\ call.project = LongName
    /\ call.dataset = <<46, 46>>
    /\ call.name = <<47>>
    /\ KeysBelowRunPrefix

\* ------------------------------------------------------ a file of the store
ReadIsOldOrNew ==
    file.read.done => file.read.bytes \in {file.read.old, file.read.new}

\* C22: a get_bytes of a key that runs while a put_bytes of the key is in
\* progress returns the complete previous value or the complete new value,
\* never an empty or partial one.
C22_ReadsComplete == ReadIsOldOrNew

\* the same for reads while no put_bytes is in progress
C22_QuietReadsComplete == ~file.read.overlapped => ReadIsOldOrNew

\* a read of the new value after a put_bytes has returned
C22_ReadAfterPut ==
    /\ file.pc = "idle" /\ file.nput > 0
    /\ file.read.done /\ ~file.read.overlapped
    /\ file.read.bytes = Doc(file.nput + 1)

\* ------------------------------------------------------- snapshot size limit
SnapshotOf(field) == IF field = "input" THEN "input.bbdata" ELSE "output.bbdata"
\* the full snapshot of a field of step o was written and is larger than max_mb
WrittenTooLarge(o, field) ==
    /\ store[StepKey(o, SnapshotOf(field))].kind = "parquet"
    /\ TableDef(store[StepKey(o, SnapshotOf(field))].table).size_mb > cfg.max_mb
SkippedForSize(o, field) ==
    /\ StoredStep(o)[field].artifact = "None"
    /\ StoredStep(o)[field].snapshot_skipped = "size"
SizeLimitKept ==
    \A o \in Ordinals : \A field \in {"input", "output"} :
        (HasStep(o) /\ StoredStep(o)[field] # Null /\ WrittenTooLarge(o, field))
            => SkippedForSize(o, field)

C23_SizeLimitKeptSync ==
    (hist.quiet /\ cfg.snapshot_mode = "auto" /\ ~cfg.snapshot_async) => SizeLimitKept

\* a finished synchronous run with a snapshot skipped for its written size
C23_SkippedAfterWrite ==
    /\ hist.quiet /\ cfg.snapshot_mode = "auto" /\ ~cfg.snapshot_async
    /\ \E o \in Ordinals :
           HasStep(o) /\ StoredStep(o).output # Null
               /\ WrittenTooLarge(o, "output") /\ SkippedForSize(o, "output")

\* ------------------------------------------------------------ key list order
Ascending(q) == \A i \in 1..(Len(q) - 1) : LexLess(q[i], q[i + 1])
KeyListsSorted ==
    /\ Ascending(call.result.added_keys)
    /\ Ascending(call.result.removed_keys)
    /\ Ascending(call.result.changed_keys)

\* C24: in every payload the differ returns, added_keys, removed_keys and
\* changed_keys are each sorted ascending by the keys' text, for every row
\* order of A and B, one or several key columns, chunked or not.
C24_KeyListsSorted == (call.op = "diff" /\ call.result.raises = "none") => KeyListsSorted

\* the same with chunk_rows > 0
C24_KeyListsSortedChunked ==
    (call.op = "diff" /\ call.result.raises = "none" /\ call.chunk_rows > 0)
        => KeyListsSorted

\* a chunked diff of frames in different row order with two changed keys
C24_TwoChangedKeys ==
    /\ call.op = "diff" /\ call.chunk_rows > 0
    /\ call.a = "TRev"
    /\ Len(call.result.changed_keys) = 2

\* ---------------------------------------------------------- snapshot engine
TableOf(o, field) == IF field = "input" THEN ctxs[o].input ELSE ctxs[o].output
SampleKeyOf(o, field) == StepKey(o, SampleName(SnapshotOf(field)))
FullKeyOf(o, field) == StepKey(o, SnapshotOf(field))
ExpectedSampleRows(t) ==
    IF cfg.sample_rows <= 0 THEN Min(2000, NRows(t)) ELSE Min(cfg.sample_rows, NRows(t))
\* a write of the sample was handed to the pool (it is a file once it is done)
SampleSubmitted(o, field) ==
    \E i \in 1..Len(futures) :
        /\ futures[i].key = SampleKeyOf(o, field)
        /\ futures[i].rows = ExpectedSampleRows(TableOf(o, field))
        /\ futures[i].state = "ok" =>
               store[SampleKeyOf(o, field)] =
                   ParquetFile(TableOf(o, field), ExpectedSampleRows(TableOf(o, field)))
SampleWritten(o, field) ==
    IF cfg.snapshot_async THEN SampleSubmitted(o, field)
    ELSE store[SampleKeyOf(o, field)] =
             ParquetFile(TableOf(o, field), ExpectedSampleRows(TableOf(o, field)))
NoSample(o, field) ==
    /\ store[SampleKeyOf(o, field)] = Absent
    /\ \A i \in 1..Len(futures) : futures[i].key # SampleKeyOf(o, field)
NoFull(o, field) ==
    /\ store[FullKeyOf(o, field)] = Absent
    /\ \A i \in 1..Len(futures) : futures[i].key # FullKeyOf(o, field)
SkippedOnEstimate(o, field) ==
    cfg.snapshot_mode = "auto" /\ TableDef(TableOf(o, field)).est_mb > cfg.max_mb
EngineAsSpecified(o, field, fp) ==
    /\ fp.schema_fp = schema_fingerprint(TableOf(o, field))
    /\ fp.content_fp = content_fingerprint_rowhash(TableOf(o, field), cfg.order_sensitive)
    /\ fp.n_rows = NRows(TableOf(o, field))
    /\ fp.n_cols = Len(TableDef(TableOf(o, field)).cols)
    /\ cfg.snapshot_mode = "none" =>
           fp.artifact = "None" /\ NoFull(o, field) /\ NoSample(o, field)
    /\ SkippedOnEstimate(o, field) =>
           /\ fp.artifact = "None"
           /\ fp.snapshot_skipped # "absent"
           /\ NoFull(o, field)
           /\ IF cfg.sample_on_skip THEN SampleWritten(o, field) ELSE NoSample(o, field)
    /\ (cfg.snapshot_mode = "auto" /\ cfg.max_mb = 0) => fp.artifact = "None"
StepRecorded(o, field) ==
    HasStep(o) /\ TableOf(o, field) # NoTable /\ StoredStep(o)[field] # Null

ExtendsByOne(old, new) ==
    /\ Len(new) = Len(old) + 1
    /\ SubSeq(new, 1, Len(old)) = old
    /\ new[Len(new)].index = Len(old)

ChainAppended ==
    store'[RunKey("chain.json")] # store[RunKey("chain.json")] =>
        /\ store'[RunKey("chain.json")] = JsonFile(JsonDump(run'.chain), 2)
        /\ ExtendsByOne(StoredEntries, run'.chain.entries)

C26_ChainAppendOnly == [][ChainAppended]_vars

\* the same for the appends of one Run object: start_run, steps, finish
C26_ChainAppendOnlyOneRun == [][hist'.starts <= 1 => ChainAppended]_vars

C26_ThreeAppends ==
    /\ hist.starts = 1
    /\ HasChain
    /\ Len(StoredEntries) >= 3
    /\ store[RunKey("chain.json")] = JsonFile(JsonDump(run.chain), 2)

\* C27: a committed step that has input and output, under diff.mode other than
\* none, has the differ's payload at artifacts/diff.bbdelta and points to it
\* exactly when diff_mode is not schema and not (adaptive and
\* skip_if_fingerprint_match and both fingerprints equal); otherwise it records
\* a placeholder with status "skipped" and summary 0/0/0 and has no
\* diff.bbdelta. A step without input or without output records diff = null
\* and has no diff.bbdelta.
Committed(o) == ctxs[o].st = "committed" /\ HasStep(o)
HasBoth(o) == ctxs[o].input # NoTable /\ ctxs[o].output # NoTable
DeltaOf(o) == store[StepKey(o, "diff.bbdelta")]
ZeroSummary == [added |-> 0, removed |-> 0, changed |-> 0]

FingerprintsMatch(o) ==
    /\ StoredStep(o).input.schema_fp = StoredStep(o).output.schema_fp
    /\ StoredStep(o).input.content_fp = StoredStep(o).output.content_fp

DifferExpected(o) ==
    /\ cfg.diff_diff_mode # "schema"
    /\ ~(cfg.adaptive /\ cfg.skip_if_fingerprint_match /\ FingerprintsMatch(o))

DiffWritten(o) ==
    /\ StoredStep(o).diff # Null
    /\ StoredStep(o).diff.artifact = "diff.bbdelta"
    /\ DeltaOf(o).kind = "json"
    /\ get_json(store, StepKey(o, "diff.bbdelta")) = StoredStep(o).diff_payload

DiffPlaceholder(o) ==
    /\ StoredStep(o).diff # Null
    /\ StoredStep(o).diff.status = "skipped"
    /\ StoredStep(o).diff.summary = ZeroSummary
    /\ DeltaOf(o) = Absent

DiffAsSpecified(o) ==
    IF ~HasBoth(o) THEN StoredStep(o).diff = Null /\ DeltaOf(o) = Absent
    ELSE IF cfg.diff_mode = "none" THEN TRUE
    ELSE IF DifferExpected(o) THEN DiffWritten(o)
    ELSE DiffPlaceholder(o)

Pushes == stream.log
AllPushesOk == \A i \in 1..Len(Pushes) : Pushes[i].ok
DictGet(d, k) == d[CHOOSE i \in 1..Len(d) : d[i][1] = k][2]

RECURSIVE LastOk(_)
LastOk(log) ==
    IF log = <<>> THEN NoTable
    ELSE IF log[Len(log)].ok THEN log[Len(log)].df
    ELSE LastOk(SubSeq(log, 1, Len(log) - 1))

SameFingerprints(fp, t) ==
    /\ fp # Null
    /\ fp.schema_fp = _df_fingerprints(t).schema_fp
    /\ fp.content_fp = _df_fingerprints(t).content_fp
    /\ fp.n_rows = NRows(t)

PushRecorded(k) ==
    /\ HasStep(k)
    /\ StoredStep(k).ordinal = k
    /\ DictGet(StoredStep(k).metadata, KeyBatchIndex) = JInt(k)
    /\ SameFingerprints(StoredStep(k).output, Pushes[k].df)
    /\ IF k = 1 THEN StoredStep(k).input = Null
       ELSE SameFingerprints(StoredStep(k).input, Pushes[k - 1].df)

RemembersLastOk ==
    /\ stream._last_df = LastOk(Pushes)
    /\ stream.pc = "in_step" => ctxs[stream.o].input = LastOk(Pushes)

OwnKeysOnly ==
    \A i \in 1..Len(Pushes) :
        \A j \in 1..Len(Pushes[i].metadata) : Pushes[i].metadata[j][1] # KeyBatchIndex

C28_StreamStepsOwnKeys ==
    /\ (AllPushesOk /\ OwnKeysOnly) => \A k \in 1..Len(Pushes) : PushRecorded(k)
    /\ RemembersLastOk

C28_TwoPushes ==
    /\ Len(Pushes) = 2 /\ AllPushesOk /\ OwnKeysOnly
    /\ PushRecorded(2)
    /\ Pushes[1].df # Pushes[2].df

C28_PushRaised ==
    /\ Len(Pushes) = 2 /\ Pushes[1].ok /\ ~Pushes[2].ok
    /\ stream._last_df = Pushes[1].df

\* C29: a committed step that records the fingerprint-match placeholder has an
\* input and an output on which diff_rowhash gives added 0, removed 0,
\* changed 0: the placeholder never hides a difference, whatever the number of
\* rows and the order_sensitive setting.
MatchRecorded(o) ==
    /\ Committed(o) /\ HasBoth(o)
    /\ StoredStep(o).diff # Null
    /\ StoredStep(o).diff.status = "skipped"
    /\ StoredStep(o).diff.reason = "fingerprint_match"

FullDiff(a, b) == diff_rowhash(a, b, cfg.primary_key, <<>>, 0, "rows", 0, FALSE)

NoDifference(o) ==
    /\ FullDiff(ctxs[o].input, ctxs[o].output).raises = "none"
    /\ FullDiff(ctxs[o].input, ctxs[o].output).summary = ZeroSummary

WithinSample(o) ==
    NRows(ctxs[o].input) <= FpSampleSize /\ NRows(ctxs[o].output) <= FpSampleSize

C29_MatchMeansEqualWithinSample ==
    \A o \in Ordinals : (MatchRecorded(o) /\ WithinSample(o)) => NoDifference(o)

C29_MatchOnReorderedRows ==
    /\ MatchRecorded(1) /\ ctxs[1].input = "TA" /\ ctxs[1].output = "TSwap"
    /\ NoDifference(1)

\* C30: with seal mode chain, whenever no recorder call is in progress, every
\* step directory that holds a file holds step.json and exactly one chain
\* entry of type step points to that step.json, and every chain step entry
\* points to a step.json that exists: a step exit that raised leaves nothing
\* of the step behind.
StepDirPresent(o) == \E f \in StepFiles : store[StepKey(o, f)] # Absent

StepEntries(o) ==
    {i \in 1..Len(StoredEntries) :
        /\ StoredEntries[i].type = "step"
        /\ StoredEntries[i].payload_ref = StepKey(o, "step.json")}

StepWhole(o) ==
    /\ StepDirPresent(o) => (HasStep(o) /\ Cardinality(StepEntries(o)) = 1)
    /\ StepEntries(o) # {} => HasStep(o)

BetweenOperations == fin.pc = "idle" /\ stream.pc = "idle"

NotRaised(o) == ctxs[o].st # "raised"

C30_StepWholeUnlessRaised ==
    (cfg.seal_mode = "chain" /\ BetweenOperations) =>
        \A o \in Ordinals : NotRaised(o) => StepWhole(o)

C30_CommittedWhole ==
    /\ Committed(1) /\ StepDirPresent(1) /\ StepWhole(1)
    /\ ctxs[2].st = "raised"

====
